---- MODULE Spec2Model ----
(***************************************************************************)
(* Model of the Beluga-challenge domain state machine of mcts_fast:        *)
(* ProblemState (copy-on-write snapshot over reference-counted buffers),   *)
(* the eight transitions of namespace Action, legal-action enumeration     *)
(* and the reward function.                                                *)
(*                                                                         *)
(* Indices, jig ids and parameters are 0-based as in the source; -1 is the *)
(* source's "no jig" marker.  TLA+ sequences are 1-based, so element i of  *)
(* a std::vector v is At(v, i).                                            *)
(***************************************************************************)
EXTENDS Integers, Sequences, FiniteSets, TLC

VARIABLES heap, objs, ret, emptied, tree, workers, mcts, twin

vars == <<heap, objs, ret, emptied, tree, workers, mcts, twin>>

(* The variables of the search driver (tree, workers, mcts, and twin for  *)
(* the tree of a second driver) and those of the snapshot under direct    *)
(* test (heap, objs, emptied).                                            *)
search_vars == <<tree, workers, mcts, twin>>
snapshot_vars == <<heap, objs, emptied>>

(* ------------------------------------------------------------------ *)
(* std::vector helpers                                                 *)
(* ------------------------------------------------------------------ *)
At(v, i) == v[i + 1]

PutAt(v, i, x) == [v EXCEPT ![i + 1] = x]

EraseAt(v, i) == SubSeq(v, 1, i) \o SubSeq(v, i + 2, Len(v))

PopBack(v) == SubSeq(v, 1, Len(v) - 1)

Back(v) == v[Len(v)]

is_valid_index(index, vec) == index >= 0 /\ index < Len(vec)

RECURSIVE Occurrences(_, _)
Occurrences(v, x) ==
  IF v = <<>> THEN 0
  ELSE (IF Head(v) = x THEN 1 ELSE 0) + Occurrences(Tail(v), x)

RECURSIVE Flatten(_)
Flatten(vv) == IF vv = <<>> THEN <<>> ELSE Head(vv) \o Flatten(Tail(vv))

SeqToSet(v) == {v[i] : i \in 1..Len(v)}

(* ------------------------------------------------------------------ *)
(* Domain value types                                                  *)
(* ------------------------------------------------------------------ *)
JigType(name, size_empty, size_loaded) ==
  [name |-> name, size_empty |-> size_empty, size_loaded |-> size_loaded]

JigTypeEq(a, b) == a.name = b.name

get_type(name) ==
  IF name = "typeA" THEN JigType("typeA", 4, 4)
  ELSE IF name = "typeB" THEN JigType("typeB", 8, 11)
  ELSE IF name = "typeC" THEN JigType("typeC", 9, 18)
  ELSE IF name = "typeD" THEN JigType("typeD", 18, 25)
  ELSE IF name = "typeE" THEN JigType("typeE", 32, 32)
  ELSE JigType("unknown", 0, 0)

Jig(type_name, empty) == [jig_type |-> get_type(type_name), empty |-> empty]

Beluga(current_jigs, outgoing) ==
  [current_jigs |-> current_jigs, outgoing |-> outgoing]

Rack(size, current_jigs) == [size |-> size, current_jigs |-> current_jigs]

ProductionLine(scheduled_jigs) == [scheduled_jigs |-> scheduled_jigs]

jig_size(jig) ==
  IF jig.empty THEN jig.jig_type.size_empty ELSE jig.jig_type.size_loaded

(* What a read of all_jigs[i] with i outside the vector can yield as the   *)
(* size of the "jig" found there: the bytes in front of the buffer are     *)
(* not under the program's control.                                        *)
OobJigSizes == {0 - 25, 0, 25}

(* Rack::get_free_space: the jig looked up for id j is all_jigs[j - 1].    *)
RECURSIVE total_used_space(_, _, _)
total_used_space(current_jigs, all_jigs, oob) ==
  IF current_jigs = <<>> THEN 0
  ELSE LET idx == Head(current_jigs) - 1
           sz  == IF is_valid_index(idx, all_jigs)
                  THEN jig_size(At(all_jigs, idx)) ELSE oob
       IN sz + total_used_space(Tail(current_jigs), all_jigs, oob)

get_free_space(rack, all_jigs, oob) ==
  rack.size - total_used_space(rack.current_jigs, all_jigs, oob)

(* ------------------------------------------------------------------ *)
(* Copy-on-write storage.  A context c = [heap, objs]:                 *)
(*   c.heap[k]  maps buffer ids to the std::vector held by a buffer    *)
(*              of kind k (one kind per shared_ptr member);            *)
(*   c.objs[h]  is the ProblemState object h: one buffer id per        *)
(*              shared_ptr member plus the plain counters.             *)
(* A buffer's use_count is the number of objects pointing at it; a     *)
(* buffer nobody points at is freed.                                   *)
(* ------------------------------------------------------------------ *)
Kinds == {"_jigs", "_belugas", "_trailers_beluga", "_trailers_factory",
          "_racks", "_production_lines", "_hangars"}

Handles == {"S", "C", "D"}

BufferIds == 1..(Cardinality(Handles) + 1)

use_count(c, k, id) ==
  Cardinality({x \in DOMAIN c.objs : c.objs[x][k] = id})

FreshId(c, k) ==
  CHOOSE n \in BufferIds :
    /\ n \notin DOMAIN c.heap[k]
    /\ \A m \in BufferIds : m < n => m \in DOMAIN c.heap[k]

Buf(c, h, k) == c.heap[k][c.objs[h][k]]

jigs(c, h) == Buf(c, h, "_jigs")
belugas(c, h) == Buf(c, h, "_belugas")
trailers_beluga(c, h) == Buf(c, h, "_trailers_beluga")
trailers_factory(c, h) == Buf(c, h, "_trailers_factory")
racks(c, h) == Buf(c, h, "_racks")
production_lines(c, h) == Buf(c, h, "_production_lines")
hangars(c, h) == Buf(c, h, "_hangars")

ensure_unique_shared(c, h, k) == c

ensure_unique(c, h, k) ==
  IF use_count(c, k, c.objs[h][k]) = 1 THEN c
  ELSE LET new == FreshId(c, k)
       IN [heap |-> [c.heap EXCEPT ![k] = (new :> Buf(c, h, k)) @@ @],
           objs |-> [c.objs EXCEPT ![h][k] = new]]

ensure_all_unique(c, h) ==
  LET c1 == ensure_unique(c, h, "_jigs")
      c2 == ensure_unique(c1, h, "_belugas")
      c3 == ensure_unique(c2, h, "_trailers_beluga")
      c4 == ensure_unique(c3, h, "_trailers_factory")
      c5 == ensure_unique(c4, h, "_racks")
      c6 == ensure_unique(c5, h, "_production_lines")
  IN ensure_unique(c6, h, "_hangars")

(* *ptr = v for the buffer object h points at (every holder sees it). *)
Store(c, h, k, v) ==
  [c EXCEPT !.heap[k][c.objs[h][k]] = v]

SetElem(c, h, k, index, value) ==
  IF ~is_valid_index(index, Buf(c, h, k)) THEN c
  ELSE LET c1 == ensure_unique(c, h, k)
       IN Store(c1, h, k, PutAt(Buf(c1, h, k), index, value))

set_jig(c, h, index, jig) == SetElem(c, h, "_jigs", index, jig)
set_beluga(c, h, index, beluga) == SetElem(c, h, "_belugas", index, beluga)
set_trailer_beluga(c, h, index, value) ==
  SetElem(c, h, "_trailers_beluga", index, value)
set_trailer_factory(c, h, index, value) ==
  SetElem(c, h, "_trailers_factory", index, value)
set_rack(c, h, index, rack) == SetElem(c, h, "_racks", index, rack)
set_production_line(c, h, index, line) ==
  SetElem(c, h, "_production_lines", index, line)
set_hangar(c, h, index, value) == SetElem(c, h, "_hangars", index, value)

remove_production_line_doubling(c, h, index) ==
  IF ~is_valid_index(index, production_lines(c, h)) THEN c
  ELSE LET c1 == ensure_unique(c, h, "_production_lines")
       IN Store(c1, h, "_production_lines",
                Append(production_lines(c1, h),
                       At(production_lines(c1, h), index)))

remove_production_line(c, h, index) ==
  IF ~is_valid_index(index, production_lines(c, h)) THEN c
  ELSE LET c1 == ensure_unique(c, h, "_production_lines")
       IN Store(c1, h, "_production_lines",
                EraseAt(production_lines(c1, h), index))

(* Release of the buffers no object points at any more. *)
Collect(c) ==
  [c EXCEPT !.heap =
     [k \in Kinds |->
        [id \in {i \in DOMAIN c.heap[k] : use_count(c, k, i) > 0}
           |-> c.heap[k][id]]]]

(* The logical value of object h: what its accessors and fields show. *)
Deref(c, h) ==
  [jigs |-> jigs(c, h), belugas |-> belugas(c, h),
   trailers_beluga |-> trailers_beluga(c, h),
   trailers_factory |-> trailers_factory(c, h),
   racks |-> racks(c, h), production_lines |-> production_lines(c, h),
   hangars |-> hangars(c, h),
   belugas_unloaded |-> c.objs[h].belugas_unloaded,
   belugas_finished |-> c.objs[h].belugas_finished,
   production_lines_finished |-> c.objs[h].production_lines_finished,
   total_lines |-> c.objs[h].total_lines,
   total_belugas |-> c.objs[h].total_belugas,
   problem_solved |-> c.objs[h].problem_solved]

(* ProblemState::ProblemState(jigs, belugas, ...): fresh buffers, counters *)
(* zero, totals from the sizes, problem_solved false.                      *)
ProblemState(js, bs, tb, tf, rs, pls, hs) ==
  [heap |-> [k \in Kinds |->
               (1 :> (CASE k = "_jigs" -> js
                        [] k = "_belugas" -> bs
                        [] k = "_trailers_beluga" -> tb
                        [] k = "_trailers_factory" -> tf
                        [] k = "_racks" -> rs
                        [] k = "_production_lines" -> pls
                        [] OTHER -> hs))],
   objs |-> ("S" :>
      [_jigs |-> 1, _belugas |-> 1, _trailers_beluga |-> 1,
       _trailers_factory |-> 1, _racks |-> 1, _production_lines |-> 1,
       _hangars |-> 1,
       belugas_unloaded |-> 0, belugas_finished |-> 0,
       production_lines_finished |-> 0,
       total_lines |-> Len(pls), total_belugas |-> Len(bs),
       problem_solved |-> FALSE])]

(* ProblemState(const ProblemState&) = default / clone / copy: the new     *)
(* object dst points at the buffers of src and copies its counters.        *)
copy(c, src, dst) == [c EXCEPT !.objs = (dst :> c.objs[src]) @@ @]

(* ~ProblemState *)
Destroy(c, h) ==
  Collect([c EXCEPT !.objs = [x \in (DOMAIN c.objs) \ {h} |-> c.objs[x]]])

(* ------------------------------------------------------------------ *)
(* ProblemState::beluga_complete and namespace Action.  Every function *)
(* yields [ok, c]: the returned bool and the context it leaves.        *)
(* ------------------------------------------------------------------ *)
Ret(ok, c) == [ok |-> ok, c |-> c]

beluga_complete_uncounted(c, h) ==
  IF belugas(c, h) = <<>> THEN Ret(FALSE, c)
  ELSE LET c1 == ensure_unique(c, h, "_belugas")
           beluga == At(belugas(c1, h), 0)
       IN IF beluga.outgoing # <<>> \/ beluga.current_jigs # <<>>
          THEN Ret(FALSE, c1)
          ELSE Ret(TRUE, Store(c1, h, "_belugas", EraseAt(belugas(c1, h), 0)))

beluga_complete(c, h) ==
  IF belugas(c, h) = <<>> THEN Ret(FALSE, c)
  ELSE LET c1 == ensure_unique(c, h, "_belugas")
           beluga == At(belugas(c1, h), 0)
       IN IF beluga.outgoing # <<>> \/ beluga.current_jigs # <<>>
          THEN Ret(FALSE, c1)
          ELSE LET c2 == [c1 EXCEPT !.objs[h].belugas_finished = @ + 1]
               IN Ret(TRUE, Store(c2, h, "_belugas",
                                  EraseAt(belugas(c2, h), 0)))

load_beluga_keep_slot(c, h, trailer_beluga, none) ==
  IF ~is_valid_index(trailer_beluga, trailers_beluga(c, h))
  THEN Ret(FALSE, c)
  ELSE
  LET jig_id == At(trailers_beluga(c, h), trailer_beluga) IN
  IF ~is_valid_index(jig_id, jigs(c, h)) THEN Ret(FALSE, c)
  ELSE IF belugas(c, h) = <<>> THEN Ret(FALSE, c)
  ELSE
  LET beluga == At(belugas(c, h), 0) IN
  IF \/ ~At(jigs(c, h), jig_id).empty
     \/ beluga.outgoing = <<>>
     \/ beluga.current_jigs # <<>>
     \/ ~JigTypeEq(At(jigs(c, h), jig_id).jig_type, At(beluga.outgoing, 0))
  THEN Ret(FALSE, c)
  ELSE
  LET c1 == set_beluga(c, h, 0, [beluga EXCEPT !.outgoing = EraseAt(@, 0)])
  IN IF Len(beluga.outgoing) = 1
     THEN Ret(TRUE, beluga_complete(c1, h).c)
     ELSE Ret(TRUE, c1)

load_beluga(c, h, trailer_beluga, none) ==
  IF ~is_valid_index(trailer_beluga, trailers_beluga(c, h))
  THEN Ret(FALSE, c)
  ELSE
  LET jig_id == At(trailers_beluga(c, h), trailer_beluga) IN
  IF jig_id = -1 THEN Ret(FALSE, c)
  ELSE IF ~is_valid_index(jig_id, jigs(c, h)) THEN Ret(FALSE, c)
  ELSE IF belugas(c, h) = <<>> THEN Ret(FALSE, c)
  ELSE
  LET beluga == At(belugas(c, h), 0) IN
  IF \/ ~At(jigs(c, h), jig_id).empty
     \/ beluga.outgoing = <<>>
     \/ beluga.current_jigs # <<>>
  THEN Ret(FALSE, c)
  ELSE IF ~JigTypeEq(At(jigs(c, h), jig_id).jig_type, At(beluga.outgoing, 0))
  THEN Ret(FALSE, c)
  ELSE
  LET modifiedBeluga == [beluga EXCEPT !.outgoing = EraseAt(@, 0)]
      c1 == set_beluga(c, h, 0, modifiedBeluga)
      c2 == set_trailer_beluga(c1, h, trailer_beluga, -1)
  IN IF Len(beluga.outgoing) = 1
     THEN Ret(TRUE, beluga_complete(c2, h).c)
     ELSE Ret(TRUE, c2)

(* The lowest index i with trailers[i] = -1, or -1 when there is none. *)
LastEmptySlot(trailers) ==
  IF \E i \in 0..(Len(trailers) - 1) : At(trailers, i) = -1
  THEN CHOOSE i \in 0..(Len(trailers) - 1) :
         /\ At(trailers, i) = -1
         /\ \A j \in (i + 1)..(Len(trailers) - 1) : At(trailers, j) # -1
  ELSE -1

FirstEmptySlot(trailers) ==
  IF \E i \in 0..(Len(trailers) - 1) : At(trailers, i) = -1
  THEN CHOOSE i \in 0..(Len(trailers) - 1) :
         /\ At(trailers, i) = -1
         /\ \A j \in 0..(i - 1) : At(trailers, j) # -1
  ELSE -1

unload_beluga_count_every(c, h) ==
  LET trailer_beluga == FirstEmptySlot(trailers_beluga(c, h)) IN
  IF trailer_beluga = -1 \/ belugas(c, h) = <<>> THEN Ret(FALSE, c)
  ELSE
  LET beluga == At(belugas(c, h), 0) IN
  IF beluga.current_jigs = <<>> THEN Ret(FALSE, c)
  ELSE
  LET jigToTransfer == Back(beluga.current_jigs)
      modifiedBeluga == [beluga EXCEPT !.current_jigs = PopBack(@)]
      c1 == set_trailer_beluga(c, h, trailer_beluga, jigToTransfer)
      c2 == set_beluga(c1, h, 0, modifiedBeluga)
      c3 == [c2 EXCEPT !.objs[h].belugas_unloaded = @ + 1]
  IN IF modifiedBeluga.current_jigs = <<>>
          /\ modifiedBeluga.outgoing = <<>>
     THEN Ret(TRUE, beluga_complete(c3, h).c)
     ELSE Ret(TRUE, c3)

unload_beluga(c, h) ==
  LET trailer_beluga == FirstEmptySlot(trailers_beluga(c, h)) IN
  IF trailer_beluga = -1 \/ belugas(c, h) = <<>> THEN Ret(FALSE, c)
  ELSE
  LET beluga == At(belugas(c, h), 0) IN
  IF beluga.current_jigs = <<>> THEN Ret(FALSE, c)
  ELSE
  LET jigToTransfer == Back(beluga.current_jigs)
      modifiedBeluga == [beluga EXCEPT !.current_jigs = PopBack(@)]
      c1 == set_trailer_beluga(c, h, trailer_beluga, jigToTransfer)
      c2 == set_beluga(c1, h, 0, modifiedBeluga)
  IN IF modifiedBeluga.current_jigs = <<>>
     THEN LET c3 == [c2 EXCEPT !.objs[h].belugas_unloaded = @ + 1]
          IN IF modifiedBeluga.outgoing = <<>>
             THEN Ret(TRUE, beluga_complete(c3, h).c)
             ELSE Ret(TRUE, c3)
     ELSE Ret(TRUE, c2)

get_from_hangar(c, h, hangar, trailer_factory) ==
  IF \/ ~is_valid_index(hangar, hangars(c, h))
     \/ ~is_valid_index(trailer_factory, trailers_factory(c, h))
  THEN Ret(FALSE, c)
  ELSE IF \/ At(hangars(c, h), hangar) = -1
          \/ At(trailers_factory(c, h), trailer_factory) # -1
  THEN Ret(FALSE, c)
  ELSE
  LET jig_id == At(hangars(c, h), hangar) IN
  IF ~is_valid_index(jig_id, jigs(c, h)) THEN Ret(FALSE, c)
  ELSE IF ~At(jigs(c, h), jig_id).empty THEN Ret(FALSE, c)
  ELSE
  LET c1 == set_trailer_factory(c, h, trailer_factory, jig_id)
  IN Ret(TRUE, set_hangar(c1, h, hangar, -1))

FindLastLine(lines, jig_id) ==
  LET hit(i) == /\ At(lines, i).scheduled_jigs # <<>>
                /\ At(At(lines, i).scheduled_jigs, 0) = jig_id
  IN IF \E i \in 0..(Len(lines) - 1) : hit(i)
     THEN CHOOSE i \in 0..(Len(lines) - 1) :
            hit(i) /\ \A j \in (i + 1)..(Len(lines) - 1) : ~hit(j)
     ELSE -1

(* The lowest line index whose first scheduled jig is jig_id, or -1. *)
FindLine(lines, jig_id) ==
  LET hit(i) == /\ At(lines, i).scheduled_jigs # <<>>
                /\ At(At(lines, i).scheduled_jigs, 0) = jig_id
  IN IF \E i \in 0..(Len(lines) - 1) : hit(i)
     THEN CHOOSE i \in 0..(Len(lines) - 1) :
            hit(i) /\ \A j \in 0..(i - 1) : ~hit(j)
     ELSE -1

deliver_to_hangar(c, h, hangar, trailer_factory) ==
  IF \/ ~is_valid_index(hangar, hangars(c, h))
     \/ ~is_valid_index(trailer_factory, trailers_factory(c, h))
  THEN Ret(FALSE, c)
  ELSE IF \/ At(hangars(c, h), hangar) # -1
          \/ At(trailers_factory(c, h), trailer_factory) = -1
  THEN Ret(FALSE, c)
  ELSE
  LET jig_id == At(trailers_factory(c, h), trailer_factory) IN
  IF ~is_valid_index(jig_id, jigs(c, h)) THEN Ret(FALSE, c)
  ELSE IF At(jigs(c, h), jig_id).empty THEN Ret(FALSE, c)
  ELSE
  LET production_line_idx == FindLine(production_lines(c, h), jig_id) IN
  IF production_line_idx = -1 THEN Ret(FALSE, c)
  ELSE
  LET line == At(production_lines(c, h), production_line_idx)
      modifiedLine == [line EXCEPT !.scheduled_jigs = EraseAt(@, 0)]
      modifiedJig == [At(jigs(c, h), jig_id) EXCEPT !.empty = TRUE]
      c1 == set_production_line(c, h, production_line_idx, modifiedLine)
      c2 == set_hangar(c1, h, hangar, jig_id)
      c3 == set_jig(c2, h, jig_id, modifiedJig)
      c4 == set_trailer_factory(c3, h, trailer_factory, -1)
  IN IF modifiedLine.scheduled_jigs = <<>>
     THEN LET c5 == [c4 EXCEPT !.objs[h].production_lines_finished = @ + 1]
          IN Ret(TRUE, remove_production_line(c5, h, production_line_idx))
     ELSE Ret(TRUE, c4)

left_stack_rack_clear_first(c, h, rack, trailer_id, oob) ==
  IF \/ ~is_valid_index(rack, racks(c, h))
     \/ ~is_valid_index(trailer_id, trailers_beluga(c, h))
  THEN Ret(FALSE, c)
  ELSE IF At(trailers_beluga(c, h), trailer_id) = -1 THEN Ret(FALSE, c)
  ELSE
  LET jig_id == At(trailers_beluga(c, h), trailer_id) IN
  IF ~is_valid_index(jig_id, jigs(c, h)) THEN Ret(FALSE, c)
  ELSE
  LET c1 == set_trailer_beluga(c, h, trailer_id, -1) IN
  IF get_free_space(At(racks(c, h), rack), jigs(c, h), oob)
       < jig_size(At(jigs(c, h), jig_id))
  THEN Ret(FALSE, c1)
  ELSE
  LET rack_copy == [At(racks(c1, h), rack)
                      EXCEPT !.current_jigs = <<jig_id>> \o @]
  IN Ret(TRUE, set_rack(c1, h, rack, rack_copy))

left_stack_rack(c, h, rack, trailer_id, oob) ==
  IF \/ ~is_valid_index(rack, racks(c, h))
     \/ ~is_valid_index(trailer_id, trailers_beluga(c, h))
  THEN Ret(FALSE, c)
  ELSE IF At(trailers_beluga(c, h), trailer_id) = -1 THEN Ret(FALSE, c)
  ELSE
  LET jig_id == At(trailers_beluga(c, h), trailer_id) IN
  IF ~is_valid_index(jig_id, jigs(c, h)) THEN Ret(FALSE, c)
  ELSE IF get_free_space(At(racks(c, h), rack), jigs(c, h), oob)
            < jig_size(At(jigs(c, h), jig_id))
  THEN Ret(FALSE, c)
  ELSE
  LET c1 == set_trailer_beluga(c, h, trailer_id, -1)
      rack_copy == [At(racks(c1, h), rack)
                      EXCEPT !.current_jigs = <<jig_id>> \o @]
  IN Ret(TRUE, set_rack(c1, h, rack, rack_copy))

right_stack_rack_at_front(c, h, rack, trailer_id, oob) ==
  IF \/ ~is_valid_index(rack, racks(c, h))
     \/ ~is_valid_index(trailer_id, trailers_factory(c, h))
  THEN Ret(FALSE, c)
  ELSE IF At(trailers_factory(c, h), trailer_id) = -1 THEN Ret(FALSE, c)
  ELSE
  LET jig_id == At(trailers_factory(c, h), trailer_id) IN
  IF ~is_valid_index(jig_id, jigs(c, h)) THEN Ret(FALSE, c)
  ELSE IF get_free_space(At(racks(c, h), rack), jigs(c, h), oob)
            < jig_size(At(jigs(c, h), jig_id))
  THEN Ret(FALSE, c)
  ELSE
  LET modifiedRack == [At(racks(c, h), rack)
                         EXCEPT !.current_jigs = <<jig_id>> \o @]
      c1 == set_trailer_factory(c, h, trailer_id, -1)
  IN Ret(TRUE, set_rack(c1, h, rack, modifiedRack))

right_stack_rack(c, h, rack, trailer_id, oob) ==
  IF \/ ~is_valid_index(rack, racks(c, h))
     \/ ~is_valid_index(trailer_id, trailers_factory(c, h))
  THEN Ret(FALSE, c)
  ELSE IF At(trailers_factory(c, h), trailer_id) = -1 THEN Ret(FALSE, c)
  ELSE
  LET jig_id == At(trailers_factory(c, h), trailer_id) IN
  IF ~is_valid_index(jig_id, jigs(c, h)) THEN Ret(FALSE, c)
  ELSE IF get_free_space(At(racks(c, h), rack), jigs(c, h), oob)
            < jig_size(At(jigs(c, h), jig_id))
  THEN Ret(FALSE, c)
  ELSE
  LET modifiedRack == [At(racks(c, h), rack)
                         EXCEPT !.current_jigs = Append(@, jig_id)]
      c1 == set_trailer_factory(c, h, trailer_id, -1)
  IN Ret(TRUE, set_rack(c1, h, rack, modifiedRack))

left_unstack_rack_keep(c, h, rack, trailer_id) ==
  IF \/ ~is_valid_index(rack, racks(c, h))
     \/ ~is_valid_index(trailer_id, trailers_beluga(c, h))
  THEN Ret(FALSE, c)
  ELSE IF \/ At(trailers_beluga(c, h), trailer_id) # -1
          \/ At(racks(c, h), rack).current_jigs = <<>>
  THEN Ret(FALSE, c)
  ELSE
  LET jigToTransfer == Head(At(racks(c, h), rack).current_jigs)
  IN Ret(TRUE, set_trailer_beluga(c, h, trailer_id, jigToTransfer))

left_unstack_rack(c, h, rack, trailer_id) ==
  IF \/ ~is_valid_index(rack, racks(c, h))
     \/ ~is_valid_index(trailer_id, trailers_beluga(c, h))
  THEN Ret(FALSE, c)
  ELSE IF \/ At(trailers_beluga(c, h), trailer_id) # -1
          \/ At(racks(c, h), rack).current_jigs = <<>>
  THEN Ret(FALSE, c)
  ELSE
  LET jigToTransfer == Head(At(racks(c, h), rack).current_jigs)
      modifiedRack == [At(racks(c, h), rack)
                         EXCEPT !.current_jigs = EraseAt(@, 0)]
      c1 == set_trailer_beluga(c, h, trailer_id, jigToTransfer)
  IN Ret(TRUE, set_rack(c1, h, rack, modifiedRack))

right_unstack_rack(c, h, rack, trailer_id) ==
  IF \/ ~is_valid_index(rack, racks(c, h))
     \/ ~is_valid_index(trailer_id, trailers_factory(c, h))
  THEN Ret(FALSE, c)
  ELSE IF \/ At(trailers_factory(c, h), trailer_id) # -1
          \/ At(racks(c, h), rack).current_jigs = <<>>
  THEN Ret(FALSE, c)
  ELSE
  LET jigToTransfer == Back(At(racks(c, h), rack).current_jigs)
      modifiedRack == [At(racks(c, h), rack)
                         EXCEPT !.current_jigs = PopBack(@)]
      c1 == set_trailer_factory(c, h, trailer_id, jigToTransfer)
  IN Ret(TRUE, set_rack(c1, h, rack, modifiedRack))

(* ------------------------------------------------------------------ *)
(* ProblemState: dispatch, validation, enumeration, reward             *)
(* ------------------------------------------------------------------ *)
KnownActions == {"unload_beluga", "load_beluga", "get_from_hangar",
                 "deliver_to_hangar", "left_stack_rack", "right_stack_rack",
                 "left_unstack_rack", "right_unstack_rack"}

(* Names handed to the string-dispatching entry points: the eight known   *)
(* ones, the empty string, and unknown names with and without a first     *)
(* letter the dispatcher branches on.                                     *)
ActionNameInputs == KnownActions \cup {"", "left_load"}

(* action_name[0]; for the empty string this is the terminating '\0'. *)
first_char(action_name) ==
  IF action_name \in {"left_stack_rack", "left_unstack_rack",
                      "load_beluga", "left_load"} THEN "l"
  ELSE IF action_name \in {"right_stack_rack", "right_unstack_rack"} THEN "r"
  ELSE IF action_name = "unload_beluga" THEN "u"
  ELSE IF action_name = "get_from_hangar" THEN "g"
  ELSE IF action_name = "deliver_to_hangar" THEN "d"
  ELSE "\\0"

(* The switch of apply_action on the first character fc of the name,    *)
(* on the context c0 that ensure_all_unique left.                          *)
apply_action_switch(c0, h, action_name, params, oob, fc) ==
  IF fc = "l" THEN
    IF action_name = "left_stack_rack" /\ Len(params) >= 2
    THEN left_stack_rack(c0, h, params[1], params[2], oob)
    ELSE IF action_name = "left_unstack_rack" /\ Len(params) >= 2
    THEN left_unstack_rack(c0, h, params[1], params[2])
    ELSE IF action_name = "load_beluga" /\ Len(params) >= 1
    THEN load_beluga(c0, h, params[1],
                     IF Len(params) > 1 THEN params[2] ELSE -1)
    ELSE Ret(FALSE, c0)
  ELSE IF fc = "r" THEN
    IF action_name = "right_stack_rack" /\ Len(params) >= 2
    THEN right_stack_rack(c0, h, params[1], params[2], oob)
    ELSE IF action_name = "right_unstack_rack" /\ Len(params) >= 2
    THEN right_unstack_rack(c0, h, params[1], params[2])
    ELSE Ret(FALSE, c0)
  ELSE IF fc = "u" THEN
    IF action_name = "unload_beluga" THEN unload_beluga(c0, h)
    ELSE Ret(FALSE, c0)
  ELSE IF fc = "g" THEN
    IF action_name = "get_from_hangar" /\ Len(params) >= 2
    THEN get_from_hangar(c0, h, params[1], params[2])
    ELSE Ret(FALSE, c0)
  ELSE IF fc = "d" THEN
    IF action_name = "deliver_to_hangar" /\ Len(params) >= 2
    THEN deliver_to_hangar(c0, h, params[1], params[2])
    ELSE Ret(FALSE, c0)
  ELSE Ret(FALSE, c0)

apply_action(c, h, action_name, params, oob) ==
  apply_action_switch(ensure_all_unique(c, h), h, action_name, params, oob,
                      first_char(action_name))

(* check_action_valid: the local state_copy shares the buffers of h until  *)
(* apply_action un-shares them, and is destroyed on return.                *)
return_from_check(r) == Ret(r.ok, Destroy(r.c, "state_copy"))

check_action_valid(c, h, action_name, params, oob) ==
  return_from_check(apply_action(copy(c, h, "state_copy"), "state_copy",
                                 action_name, params, oob))

PairsInnerFirst(n, m) ==
  [k \in 1..(n * m) |-> <<(k - 1) % n, (k - 1) \div n>>]

(* The index pairs of a nested loop "for a < n, for b < m", in loop order. *)
Pairs(n, m) == [k \in 1..(n * m) |-> <<(k - 1) \div m, (k - 1) % m>>]

(* The index pairs the branch of enumerate_valid_params for `action`      *)
(* loops over; a name without a branch has none.                           *)
candidates(c, h, action) ==
  IF action \in {"left_stack_rack", "left_unstack_rack"}
  THEN Pairs(Len(racks(c, h)), Len(trailers_beluga(c, h)))
  ELSE IF action \in {"right_stack_rack", "right_unstack_rack"}
  THEN Pairs(Len(racks(c, h)), Len(trailers_factory(c, h)))
  ELSE IF action \in {"left_load", "left_unload"}
  THEN Pairs(Len(production_lines(c, h)), Len(trailers_beluga(c, h)))
  ELSE IF action \in {"right_load", "right_unload"}
  THEN Pairs(Len(production_lines(c, h)), Len(trailers_factory(c, h)))
  ELSE IF action \in {"deliver_to_hangar", "get_from_hangar"}
  THEN Pairs(Len(hangars(c, h)), Len(trailers_factory(c, h)))
  ELSE <<>>

(* The quick pre-check of the branch for `action` on candidate `cand`;    *)
(* oob is what an out-of-range jig lookup yields on this object's buffer.  *)
pre_check(c, h, action, cand, oob) ==
  LET t == IF action \in {"left_stack_rack", "left_unstack_rack",
                          "left_load", "left_unload"}
           THEN trailers_beluga(c, h) ELSE trailers_factory(c, h)
      js == jigs(c, h)
      rs == racks(c, h)
      pls == production_lines(c, h)
      hs == hangars(c, h)
  IN
  IF action \in {"left_stack_rack", "right_stack_rack"} THEN
    /\ At(t, cand[2]) # -1
    /\ is_valid_index(At(t, cand[2]), js)
    /\ get_free_space(At(rs, cand[1]), js, oob)
         >= jig_size(At(js, At(t, cand[2])))
  ELSE IF action \in {"left_unstack_rack", "right_unstack_rack"} THEN
    /\ At(t, cand[2]) = -1
    /\ At(rs, cand[1]).current_jigs # <<>>
  ELSE IF action \in {"left_load", "right_load"} THEN
    /\ At(t, cand[2]) # -1
    /\ is_valid_index(At(t, cand[2]), js)
    /\ At(js, At(t, cand[2])).empty
    /\ At(pls, cand[1]).scheduled_jigs = <<>>
  ELSE IF action \in {"left_unload", "right_unload"} THEN
    /\ At(t, cand[2]) = -1
    /\ At(pls, cand[1]).scheduled_jigs # <<>>
  ELSE IF action = "deliver_to_hangar" THEN
    /\ At(hs, cand[1]) = -1
    /\ At(t, cand[2]) # -1
    /\ is_valid_index(At(t, cand[2]), js)
    /\ ~At(js, At(t, cand[2])).empty
    /\ \E i \in 1..Len(pls) :
         /\ pls[i].scheduled_jigs # <<>>
         /\ pls[i].scheduled_jigs[1] = At(t, cand[2])
  ELSE
    /\ action = "get_from_hangar"
    /\ At(hs, cand[1]) # -1
    /\ At(t, cand[2]) = -1
    /\ is_valid_index(At(hs, cand[1]), js)
    /\ At(js, At(hs, cand[1])).empty

(* The branches that confirm a candidate with check_action_valid. *)
double_checked ==
  {"left_stack_rack", "right_stack_rack", "left_unstack_rack",
   "right_unstack_rack", "left_load", "right_load", "left_unload",
   "right_unload"}

(* oob.here is what an out-of-range jig lookup yields on this object's     *)
(* jig buffer, oob.copy what it yields on the buffer of a state_copy.      *)
enumerate_valid_params(c, h, action, oob) ==
  IF action = "unload_beluga"
  THEN IF /\ belugas(c, h) # <<>>
          /\ At(belugas(c, h), 0).current_jigs # <<>>
          /\ \E i \in 1..Len(trailers_beluga(c, h)) :
               trailers_beluga(c, h)[i] = -1
       THEN << <<>> >> ELSE <<>>
  ELSE SelectSeq(candidates(c, h, action),
                 LAMBDA cand :
                   /\ pre_check(c, h, action, cand, oob.here)
                   /\ action \in double_checked =>
                        check_action_valid(c, h, action, cand, oob.copy).ok)

param_actions ==
  <<"left_stack_rack", "right_stack_rack", "left_unstack_rack",
    "right_unstack_rack", "load_beluga", "get_from_hangar",
    "deliver_to_hangar">>

Act(name, params) == [name |-> name, params |-> params]

with_name(action, params) ==
  [i \in 1..Len(params) |-> Act(action, params[i])]

get_possible_actions(c, h, oob) ==
  (IF check_action_valid(c, h, "unload_beluga", <<>>, oob.copy).ok
   THEN <<Act("unload_beluga", <<>>)>> ELSE <<>>)
  \o Flatten([i \in 1..Len(param_actions) |->
                with_name(param_actions[i],
                          enumerate_valid_params(c, h, param_actions[i],
                                                 oob))])

is_terminal(c, h) == belugas(c, h) = <<>> /\ production_lines(c, h) = <<>>

(* evaluate(depth, mu) for mu = mu_num / MuDen, as the exact rational      *)
(* score times MuDen (the source computes the same sum in float).          *)
MuDen == 20

evaluate_without_bonus(c, h, depth, mu_num) ==
  MuDen * ( c.objs[h].belugas_unloaded * 15
          + (c.objs[h].total_belugas - Len(belugas(c, h))) * 60
          + (c.objs[h].total_lines - Len(production_lines(c, h))) * 100 )
  - mu_num * depth

evaluate(c, h, depth, mu_num) ==
  LET local_belugas_finished ==
        c.objs[h].total_belugas - Len(belugas(c, h))
      local_production_lines_finished ==
        c.objs[h].total_lines - Len(production_lines(c, h))
      local_problem_solved ==
        belugas(c, h) = <<>> /\ production_lines(c, h) = <<>>
  IN MuDen * ( c.objs[h].belugas_unloaded * 15
             + local_belugas_finished * 60
             + local_production_lines_finished * 100
             + (IF local_problem_solved THEN 1000 ELSE 0) )
     - mu_num * depth

(* ------------------------------------------------------------------ *)
(* Initial snapshots: what the constructor is handed                   *)
(* ------------------------------------------------------------------ *)
TA == get_type("typeA")

(* Scenario A of the specification: one loaded typeA jig to deliver. *)
ScenarioA ==
  ProblemState(<<Jig("typeA", FALSE)>>,
               <<Beluga(<<0>>, <<>>)>>,
               <<-1>>, <<-1>>,
               <<Rack(10, <<>>)>>,
               <<ProductionLine(<<0>>)>>,
               <<-1>>)

(* Scenario B of the specification: an empty typeA jig waits on beluga     *)
(* trailer 0 for a beluga that demands typeA.                              *)
ScenarioB ==
  ProblemState(<<Jig("typeA", TRUE)>>,
               <<Beluga(<<>>, <<TA>>)>>,
               <<0>>, <<-1>>,
               <<Rack(10, <<>>)>>,
               <<>>,
               <<-1>>)

(* Mixed sizes around one rack of 12 that starts with jig 1 (typeB        *)
(* loaded, 11): jig 2 (typeA, 4) arrives with the first flight and can     *)
(* make the whole round trip (rack, line, hangar, rack, beluga); jig 0     *)
(* arrives with the second flight.                                         *)
ScenarioMixed ==
  ProblemState(<<Jig("typeA", FALSE), Jig("typeB", FALSE),
                 Jig("typeA", FALSE)>>,
               <<Beluga(<<2>>, <<TA>>), Beluga(<<0>>, <<>>)>>,
               <<-1>>, <<-1>>,
               <<Rack(12, <<1>>)>>,
               <<ProductionLine(<<2, 1>>)>>,
               <<-1>>)

(* Three flights: the first carries two jigs, the second has neither      *)
(* cargo nor demand; two racks, two beluga trailers, one line.             *)
ScenarioFlights ==
  ProblemState(<<Jig("typeA", FALSE), Jig("typeB", FALSE)>>,
               <<Beluga(<<1, 0>>, <<>>), Beluga(<<>>, <<>>),
                 Beluga(<<>>, <<TA>>)>>,
               <<-1, -1>>, <<-1>>,
               <<Rack(11, <<>>), Rack(4, <<>>)>>,
               <<ProductionLine(<<1>>)>>,
               <<-1>>)

(* Two empty typeA jigs wait on the beluga trailers for one beluga that  *)
(* demands two typeA jigs; nothing else is on the site.                  *)
ScenarioDemand ==
  ProblemState(<<Jig("typeA", TRUE), Jig("typeA", TRUE)>>,
               <<Beluga(<<>>, <<TA, TA>>)>>,
               <<0, 1>>, <<>>,
               <<>>,
               <<>>,
               <<>>)

(* Three lines, the last two waiting for the same jig 0, which stands    *)
(* loaded on the factory trailer; jig 1, for the first line, is in the   *)
(* rack.                                                                 *)
ScenarioLines ==
  ProblemState(<<Jig("typeA", FALSE), Jig("typeA", FALSE)>>,
               <<>>,
               <<-1>>, <<0>>,
               <<Rack(10, <<1>>)>>,
               <<ProductionLine(<<1>>), ProductionLine(<<0>>),
                 ProductionLine(<<0, 1>>)>>,
               <<-1>>)

InitialSnapshots ==
  {ScenarioA, ScenarioB, ScenarioMixed, ScenarioFlights, ScenarioDemand,
   ScenarioLines}

(* ------------------------------------------------------------------ *)
(* Inputs                                                              *)
(* ------------------------------------------------------------------ *)
MaxParam == 1
MaxDepth == 1

ParamValues == (0 - 1)..MaxParam
ParamLens == 0..2
ParamLists == UNION {[1..n -> ParamValues] : n \in ParamLens}
Depths == 0..MaxDepth

(* ------------------------------------------------------------------ *)
(* The state machine                                                   *)
(* ------------------------------------------------------------------ *)
Ctx == [heap |-> heap, objs |-> objs]

state == Deref(Ctx, "S")

Init ==
  \E snap \in InitialSnapshots :
    /\ heap = snap.heap
    /\ objs = snap.objs
    /\ ret = [op |-> "construct", h |-> "S"]
    /\ emptied = 0
    /\ tree = <<>> /\ workers = <<>> /\ mcts = [pc |-> "none"]
    /\ twin = <<>>

(* get_free_space looks up all_jigs[j - 1] for the jigs j of a rack, so    *)
(* the lookup leaves the vector exactly when the rack holds such a j.      *)
ReadsOob(c, h, rack) ==
  /\ is_valid_index(rack, racks(c, h))
  /\ \E j \in SeqToSet(At(racks(c, h), rack).current_jigs) :
       ~is_valid_index(j - 1, jigs(c, h))

(* The values an out-of-range jig lookup can yield during the call         *)
(* h.apply_action(name, params): only the two stack actions ask a rack     *)
(* for its free space; when nothing is read one value stands for all.      *)
OobReads(c, h, name, params) ==
  IF /\ name \in {"left_stack_rack", "right_stack_rack"}
     /\ Len(params) >= 2
     /\ ReadsOob(c, h, params[1])
  THEN OobJigSizes ELSE {0}

(* The same for a call that may ask any rack. *)
OobReadsAny(c, h) ==
  IF \E rack \in 0..(Len(racks(c, h)) - 1) : ReadsOob(c, h, rack)
  THEN OobJigSizes ELSE {0}

(* h.apply_action(name, params); ret.action holds the action that took    *)
(* effect, if one did.                                                     *)
ApplyAction(h) ==
  /\ UNCHANGED search_vars
  /\ h \in DOMAIN objs
  /\ \E name \in ActionNameInputs, params \in ParamLists :
       \E r \in {apply_action(Ctx, h, name, params, oob) :
                   oob \in OobReads(Ctx, h, name, params)} :
         /\ heap' = r.c.heap
         /\ objs' = r.c.objs
         /\ ret' = [op |-> "apply_action", h |-> h, ok |-> r.ok,
                    action |-> IF r.ok THEN <<Act(name, params)>> ELSE <<>>]
         /\ emptied' =
              IF /\ h = "S" /\ name = "unload_beluga" /\ r.ok
                 /\ Len(At(belugas(Ctx, h), 0).current_jigs) = 1
              THEN emptied + 1 ELSE emptied

(* h.check_action_valid(name, params); on_copy is what apply_action        *)
(* returns on a separately made copy of h, unchanged whether h shows the   *)
(* same value after the call as before it.                                 *)
CheckActionValid(h) ==
  /\ UNCHANGED search_vars
  /\ h \in DOMAIN objs
  /\ \E name \in ActionNameInputs, params \in ParamLists :
       \E r \in {check_action_valid(Ctx, h, name, params, oob) :
                   oob \in OobReads(Ctx, h, name, params)},
          on_copy \in {apply_action(copy(Ctx, h, "a_copy"), "a_copy",
                                    name, params, oob).ok :
                         oob \in OobReads(Ctx, h, name, params)} :
         /\ heap' = r.c.heap
         /\ objs' = r.c.objs
         /\ ret' = [op |-> "check_action_valid", h |-> h,
                    out |-> r.ok, on_copy |-> on_copy,
                    unchanged |-> Deref(r.c, h) = Deref(Ctx, h)]
         /\ emptied' = emptied

(* h.get_possible_actions() *)
GetPossibleActions(h) ==
  /\ UNCHANGED search_vars
  /\ h \in DOMAIN objs
  /\ \E oh \in OobReadsAny(Ctx, h), oc \in OobReadsAny(Ctx, h) :
       /\ ret' = [op |-> "get_possible_actions", h |-> h,
                  out |-> get_possible_actions(Ctx, h,
                                               [here |-> oh, copy |-> oc])]
       /\ UNCHANGED <<heap, objs, emptied>>

(* h.evaluate(depth) with the default mu = 0.05 = 1 / MuDen *)
Evaluate(h) ==
  /\ UNCHANGED search_vars
  /\ h \in DOMAIN objs
  /\ \E depth \in Depths :
       /\ ret' = [op |-> "evaluate", h |-> h, depth |-> depth,
                  out |-> evaluate(Ctx, h, depth, 1)]
       /\ UNCHANGED <<heap, objs, emptied>>

Next ==
  \/ ApplyAction("S")
  \/ CheckActionValid("S")
  \/ GetPossibleActions("S")
  \/ Evaluate("S")

Spec == Init /\ [][Next]_vars

(* ------------------------------------------------------------------ *)
(* Several ProblemState objects over shared buffers: "S" is built by   *)
(* the constructor, the others come and go as copies.                  *)
(* ------------------------------------------------------------------ *)
(* Scenario B without the factory trailer: the jig can move between the *)
(* beluga trailer and the rack, or be loaded into the beluga.           *)
ScenarioCow ==
  ProblemState(<<Jig("typeA", TRUE)>>,
               <<Beluga(<<>>, <<TA>>)>>,
               <<0>>, <<>>,
               <<Rack(10, <<>>)>>,
               <<>>,
               <<-1>>)

InitCow ==
  /\ heap = ScenarioCow.heap
  /\ objs = ScenarioCow.objs
  /\ ret = [op |-> "construct", h |-> "S"]
  /\ emptied = 0
  /\ tree = <<>> /\ workers = <<>> /\ mcts = [pc |-> "none"]
  /\ twin = <<>>

(* dst = src.copy()  (equally: dst = src.clone(), ProblemState dst(src)) *)
CopyState(src, dst) ==
  /\ UNCHANGED search_vars
  /\ src \in DOMAIN objs
  /\ dst \notin DOMAIN objs
  /\ heap' = copy(Ctx, src, dst).heap
  /\ objs' = copy(Ctx, src, dst).objs
  /\ ret' = [op |-> "copy", h |-> dst, from |-> src]
  /\ emptied' = emptied

(* h goes out of scope *)
DestroyState(h) ==
  /\ UNCHANGED search_vars
  /\ h \in DOMAIN objs
  /\ h # "S"
  /\ heap' = Destroy(Ctx, h).heap
  /\ objs' = Destroy(Ctx, h).objs
  /\ ret' = [op |-> "destroy", h |-> h]
  /\ emptied' = emptied

NextCow ==
  \/ \E h \in Handles : ApplyAction(h)
  \/ \E src \in Handles, dst \in Handles : CopyState(src, dst)
  \/ \E h \in Handles : DestroyState(h)

SpecCow == InitCow /\ [][NextCow]_vars

(* ------------------------------------------------------------------ *)
(* Properties of the snapshot                                          *)
(* ------------------------------------------------------------------ *)
RECURSIVE RackLoad(_, _)
RackLoad(current_jigs, all_jigs) ==
  IF current_jigs = <<>> THEN 0
  ELSE jig_size(At(all_jigs, Head(current_jigs)))
       + RackLoad(Tail(current_jigs), all_jigs)

(* C1: every rack holds jigs whose sizes sum to at most its capacity
   (size_empty for an empty jig, size_loaded otherwise). *)
C1_RackCapacity ==
  \A i \in 1..Len(state.racks) :
    RackLoad(state.racks[i].current_jigs, state.jigs) <= state.racks[i].size

(* Every slot of every container a jig can be in, for the active beluga. *)
Locations(s) ==
  s.trailers_beluga \o s.trailers_factory \o s.hangars
  \o Flatten([i \in 1..Len(s.racks) |-> s.racks[i].current_jigs])
  \o (IF s.belugas = <<>> THEN <<>> ELSE s.belugas[1].current_jigs)

(* C2: every jig id occurs at most once over the beluga trailers, the
   factory trailers, the hangars, the racks and the active beluga's cargo. *)
C2_JigLocationUnique ==
  \A j \in 0..(Len(state.jigs) - 1) : Occurrences(Locations(state), j) <= 1

C2_Witness ==
  /\ ret.op = "apply_action" /\ ret.ok
  /\ ret.action = <<Act("left_unstack_rack", <<0, 0>>)>>
  /\ state.trailers_factory # <<-1>>

(* C3: an apply_action call that returns false leaves every component of
   the snapshot (containers and counters) as it was before the call. *)
C3_IllegalLeavesUnchanged ==
  [][(ret'.op = "apply_action" /\ ~ret'.ok) => state' = state]_vars

C3_Witness ==
  /\ ret.op = "apply_action" /\ ~ret.ok
  /\ state.trailers_beluga # <<-1, -1>>
  /\ state.belugas_unloaded > 0

(* All (name, params) of the eight actions with in-range parameters. *)
InRangeActions(s) ==
  LET R == 0..(Len(s.racks) - 1)
      TBs == 0..(Len(s.trailers_beluga) - 1)
      TFs == 0..(Len(s.trailers_factory) - 1)
      H == 0..(Len(s.hangars) - 1)
  IN {Act("unload_beluga", <<>>)}
     \cup {Act("load_beluga", <<t>>) : t \in TBs}
     \cup {Act("left_stack_rack", <<r, t>>) : r \in R, t \in TBs}
     \cup {Act("left_unstack_rack", <<r, t>>) : r \in R, t \in TBs}
     \cup {Act("right_stack_rack", <<r, t>>) : r \in R, t \in TFs}
     \cup {Act("right_unstack_rack", <<r, t>>) : r \in R, t \in TFs}
     \cup {Act("get_from_hangar", <<g, t>>) : g \in H, t \in TFs}
     \cup {Act("deliver_to_hangar", <<g, t>>) : g \in H, t \in TFs}

(* C4: what get_possible_actions returns is, as a set, exactly the
   in-range (name, params) for which check_action_valid returns true. *)
C4_EnumerationExact ==
  ret.op = "get_possible_actions" =>
    \E oob \in OobJigSizes :
      SeqToSet(ret.out) =
        {a \in InRangeActions(state) :
           check_action_valid(Ctx, "S", a.name, a.params, oob).ok}

(* C5: check_action_valid returns what apply_action returns on a copy of
   the snapshot, and leaves the snapshot itself unchanged. *)
C5_CheckIsApplyOnCopy ==
  ret.op = "check_action_valid" =>
    (ret.out = ret.on_copy /\ ret.unchanged)

(* C6: an apply_action call on one ProblemState object leaves every
   other live object (the original, a copy, a copy of a copy) with all
   its components and counters as they were, whatever buffers they
   shared before the call. *)
C6_CopyIsolation ==
  [][ret'.op = "apply_action" =>
       \A x \in DOMAIN objs \ {ret'.h} :
          /\ x \in DOMAIN objs'
          /\ Deref(Ctx', x) = Deref(Ctx, x)]_vars

C6_Witness ==
  /\ ret.op = "apply_action"
  /\ ret.ok
  /\ ret.h = "C"
  /\ DOMAIN objs = Handles
  /\ Deref(Ctx, "C") # Deref(Ctx, "S")
  /\ Deref(Ctx, "D") # Deref(Ctx, "C")
  /\ Deref(Ctx, "D") # Deref(Ctx, "S")

(* C7: belugas_finished = total_belugas - |belugas| and
   production_lines_finished = total_lines - |production_lines|, for the
   stored fields. *)
C7_FinishedCounters ==
  /\ state.belugas_finished = state.total_belugas - Len(state.belugas)
  /\ state.production_lines_finished
       = state.total_lines - Len(state.production_lines)

C7_Witness ==
  /\ state.belugas_finished >= 1
  /\ state.production_lines_finished >= 1
  /\ state.belugas # <<>>

(* C8: after every apply_action call the stored problem_solved field is
   true exactly when no beluga and no production line is left. *)
C8_ProblemSolvedFlag ==
  ret.op = "apply_action" =>
    (state.problem_solved <=>
       (state.belugas = <<>> /\ state.production_lines = <<>>))

(* C9: after every apply_action call the active beluga, if there is one,
   has cargo left or a demand left. *)
C9_NoCompletedBelugaActive ==
  ret.op = "apply_action" =>
    (state.belugas # <<>> =>
       (state.belugas[1].current_jigs # <<>>
        \/ state.belugas[1].outgoing # <<>>))

(* C10: evaluate(depth) with mu = 1/MuDen is, times MuDen,
   MuDen * (15 * (number of unload_beluga applications that emptied a
   cargo) + 60 * (total_belugas - |belugas|) + 100 * (total_lines -
   |production_lines|) + (1000 if both are empty)) - depth. *)
C10_RewardFormula ==
  ret.op = "evaluate" =>
    ret.out =
      MuDen * ( 15 * emptied
              + 60 * (state.total_belugas - Len(state.belugas))
              + 100 * (state.total_lines - Len(state.production_lines))
              + (IF state.belugas = <<>> /\ state.production_lines = <<>>
                 THEN 1000 ELSE 0) )
      - ret.depth

C10_Witness ==
  /\ ret.op = "evaluate" /\ ret.depth > 0
  /\ emptied >= 1
  /\ state.belugas = <<>> /\ state.production_lines = <<>>

(* ------------------------------------------------------------------ *)
(* Snapshots whose trailers, hangars and racks name jigs the registry  *)
(* does not hold: the constructor stores whatever vectors it is given. *)
(* ------------------------------------------------------------------ *)
(* One registered jig (id 0) on beluga trailer 0; beluga trailer 1     *)
(* names jig 3, the rack names jig 2 and the hangar names jig 4.       *)
ScenarioStray ==
  ProblemState(<<Jig("typeA", TRUE)>>,
               <<Beluga(<<>>, <<TA>>)>>,
               <<0, 3>>, <<-1>>,
               <<Rack(10, <<2>>), Rack(4, <<>>)>>,
               <<>>,
               <<4>>)

InitStray ==
  /\ heap = ScenarioStray.heap
  /\ objs = ScenarioStray.objs
  /\ ret = [op |-> "construct", h |-> "S"]
  /\ emptied = 0
  /\ tree = <<>> /\ workers = <<>> /\ mcts = [pc |-> "none"]
  /\ twin = <<>>

SpecStray == InitStray /\ [][Next]_vars

(* The number of parameters apply_action reads for a known name. *)
Arity(name) ==
  IF name = "unload_beluga" THEN 0
  ELSE IF name = "load_beluga" THEN 1
  ELSE 2

(* The vectors the parameters of a known action index, in order. *)
Indexed(s, name) ==
  IF name = "unload_beluga" THEN <<>>
  ELSE IF name = "load_beluga" THEN <<s.trailers_beluga>>
  ELSE IF name \in {"left_stack_rack", "left_unstack_rack"}
  THEN <<s.racks, s.trailers_beluga>>
  ELSE IF name \in {"right_stack_rack", "right_unstack_rack"}
  THEN <<s.racks, s.trailers_factory>>
  ELSE <<s.hangars, s.trailers_factory>>

(* A slot value that names a jig although the registry has no such jig. *)
Stray(s, v) == v # -1 /\ ~is_valid_index(v, s.jigs)

(* The call name(params) on snapshot s is malformed: unknown or empty    *)
(* name, too few parameters, an index outside its vector, or a           *)
(* referenced trailer slot, hangar slot or rack entry naming a jig       *)
(* outside the registry.                                                 *)
Malformed(s, name, params) ==
  \/ name \notin KnownActions
  \/ Len(params) < Arity(name)
  \/ \E i \in 1..Arity(name) : ~is_valid_index(params[i], Indexed(s, name)[i])
  \/ \E i \in 1..Arity(name) :
       LET slot == At(Indexed(s, name)[i], params[i])
       IN IF i = 1 /\ name \in {"left_stack_rack", "right_stack_rack",
                                 "left_unstack_rack", "right_unstack_rack"}
          THEN \E j \in SeqToSet(slot.current_jigs) : Stray(s, j)
          ELSE Stray(s, slot)

(* The call reaches Rack::get_free_space with a rack entry whose lookup  *)
(* all_jigs[j - 1] leaves the registry.                                  *)
ReachesOobRead(c, h, name, params) ==
  /\ name \in {"left_stack_rack", "right_stack_rack"}
  /\ Len(params) >= 2
  /\ ReadsOob(c, h, params[1])
  /\ LET trailers == IF name = "left_stack_rack"
                     THEN trailers_beluga(c, h) ELSE trailers_factory(c, h)
     IN /\ is_valid_index(params[2], trailers)
        /\ is_valid_index(At(trailers, params[2]), jigs(c, h))

(* C11: apply_action returns false, reads nothing out of range and      *)
(* leaves the snapshot as it was for every malformed call: unknown or   *)
(* empty name, too few parameters, an index out of range, or a          *)
(* referenced trailer slot, hangar slot or rack entry that names a jig  *)
(* outside the registry.                                                *)
C11_MalformedRejected ==
  \A name \in ActionNameInputs, params \in ParamLists :
    Malformed(state, name, params) =>
      /\ ~ReachesOobRead(Ctx, "S", name, params)
      /\ \A oob \in OobReads(Ctx, "S", name, params) :
           LET r == apply_action(Ctx, "S", name, params, oob)
           IN ~r.ok /\ Deref(r.c, "S") = state

(* ------------------------------------------------------------------ *)
(* Scenario A, played as a plan                                        *)
(* ------------------------------------------------------------------ *)
(* The snapshot after unload_beluga, left_stack_rack(0, 0),            *)
(* right_unstack_rack(0, 0), deliver_to_hangar(0, 0) on object "S" of   *)
(* c, with the four results, and the result of right_stack_rack(0, 0)   *)
(* tried directly after unload_beluga.                                  *)
PlanA(c, oob) ==
  LET r1 == apply_action(c, "S", "unload_beluga", <<>>, oob)
      rx == apply_action(r1.c, "S", "right_stack_rack", <<0, 0>>, oob)
      r2 == apply_action(r1.c, "S", "left_stack_rack", <<0, 0>>, oob)
      r3 == apply_action(r2.c, "S", "right_unstack_rack", <<0, 0>>, oob)
      r4 == apply_action(r3.c, "S", "deliver_to_hangar", <<0, 0>>, oob)
  IN [oks |-> <<r1.ok, r2.ok, r3.ok, r4.ok>>, detour |-> rx.ok, c |-> r4.c]

(* C12: from the Scenario A snapshot the four plan calls return true   *)
(* in order, right_stack_rack(0, 0) directly after unload_beluga       *)
(* returns false, and the final snapshot has jig 0 in hangar 0, an     *)
(* empty rack, no production lines, no belugas, is terminal and        *)
(* evaluates at depth 4 to 1175 - 0.05 * 4.                            *)
C12_ScenarioAPlan ==
  state = Deref(ScenarioA, "S") =>
    \A oob \in OobJigSizes :
      LET p == PlanA(Ctx, oob)
          final == Deref(p.c, "S")
      IN /\ p.oks = <<TRUE, TRUE, TRUE, TRUE>>
         /\ ~p.detour
         /\ final.hangars = <<0>>
         /\ final.racks = <<Rack(10, <<>>)>>
         /\ final.production_lines = <<>>
         /\ final.belugas = <<>>
         /\ is_terminal(p.c, "S")
         /\ evaluate(p.c, "S", 4, 1) = MuDen * 1175 - 4

(* The plan has been played call by call: deliver_to_hangar(0, 0) just  *)
(* returned true and left the plan's final snapshot.                    *)
C12_Witness ==
  /\ ret.op = "apply_action" /\ ret.ok
  /\ ret.action = <<Act("deliver_to_hangar", <<0, 0>>)>>
  /\ \E oob \in OobJigSizes : state = Deref(PlanA(ScenarioA, oob).c, "S")

(* ------------------------------------------------------------------ *)
(* load_beluga as a contract                                           *)
(* ------------------------------------------------------------------ *)
(* Snapshot s meets the stated success condition of load_beluga(t). *)
LoadBelugaEnabled(s, t) ==
  /\ s.belugas # <<>>
  /\ is_valid_index(t, s.trailers_beluga)
  /\ is_valid_index(At(s.trailers_beluga, t), s.jigs)
  /\ At(s.jigs, At(s.trailers_beluga, t)).empty
  /\ At(s.belugas, 0).current_jigs = <<>>
  /\ At(s.belugas, 0).outgoing # <<>>
  /\ At(s.jigs, At(s.trailers_beluga, t)).jig_type.name
       = At(At(s.belugas, 0).outgoing, 0).name

(* The stated effect of a successful load_beluga(t) on snapshot s. *)
LoadBelugaEffect(s, t) ==
  LET rest == Tail(At(s.belugas, 0).outgoing)
  IN [s EXCEPT
        !.trailers_beluga = PutAt(@, t, -1),
        !.belugas = IF rest = <<>> THEN Tail(@)
                    ELSE PutAt(@, 0, [At(@, 0) EXCEPT !.outgoing = rest]),
        !.belugas_finished = IF rest = <<>> THEN @ + 1 ELSE @]

(* C13: load_beluga(t) returns true exactly when a beluga exists, its   *)
(* cargo list is empty, its demand is non-empty and trailer slot t      *)
(* holds an empty jig of the first demanded type; it then removes that  *)
(* demand, clears the slot and, if the demand is thereby met, removes   *)
(* the beluga and counts it finished; nothing else changes.             *)
C13_LoadBeluga ==
  \A t \in ParamValues :
    LET r == apply_action(Ctx, "S", "load_beluga", <<t>>, 0)
    IN /\ r.ok <=> LoadBelugaEnabled(state, t)
       /\ r.ok => Deref(r.c, "S") = LoadBelugaEffect(state, t)
       /\ ~r.ok => Deref(r.c, "S") = state

(* load_beluga(0) has just returned true on a beluga that still demands *)
(* another jig afterwards.                                              *)
C13_Witness ==
  /\ ret.op = "apply_action" /\ ret.ok
  /\ ret.action = <<Act("load_beluga", <<0>>)>>
  /\ state.belugas # <<>>
  /\ Len(At(state.belugas, 0).outgoing) = 1
  /\ state.trailers_beluga = <<-1, 1>>
  /\ state.belugas_finished = 0

(* ------------------------------------------------------------------ *)
(* MCTSNode.  A tree is the sequence of its nodes in creation order;   *)
(* node 1 is the root, a pointer is a position in the sequence and 0   *)
(* is the null pointer.  A node owns its snapshot: state is a context  *)
(* holding the one object "S".  total_reward holds MuDen times the     *)
(* float the source holds.                                             *)
(* ------------------------------------------------------------------ *)
NoAction == Act("", <<>>)

MCTSNode(node_state, parent, action, depth) ==
  [state |-> node_state, parent |-> parent, action |-> action,
   depth |-> depth, children |-> <<>>, visits |-> 0, total_reward |-> 0]

(* Object h of context c moved out into a context of its own. *)
Own(c, h) ==
  [heap |-> [k \in Kinds |-> (1 :> Buf(c, h, k))],
   objs |-> ("S" :> [x \in DOMAIN c.objs[h] |->
                       IF x \in Kinds THEN 1 ELSE c.objs[h][x]])]

is_root(t, n) == t[n].parent = 0

node_is_terminal(t, n) == is_terminal(t[n].state, "S")

action_tried(t, n, action) ==
  \E i \in 1..Len(t[n].children) : t[t[n].children[i]].action = action

get_all_possible_actions(t, n, oob) ==
  get_possible_actions(t[n].state, "S", oob)

get_untried_actions_all(t, n, oob) == get_all_possible_actions(t, n, oob)

get_untried_actions(t, n, oob) ==
  IF is_root(t, n) /\ t[n].action.name # "" /\ t[n].action.params = <<>>
  THEN SelectSeq(with_name(t[n].action.name,
                           enumerate_valid_params(t[n].state, "S",
                                                  t[n].action.name, oob)),
                 LAMBDA candidate : ~action_tried(t, n, candidate))
  ELSE SelectSeq(get_all_possible_actions(t, n, oob),
                 LAMBDA action : ~action_tried(t, n, action))

is_fully_expanded(t, n, oob) == get_untried_actions(t, n, oob) = <<>>

add_child(t, n, child) ==
  Append([t EXCEPT ![n].children = Append(@, Len(t) + 1)], child)

expand_same_depth(t, n, candidate, oob) ==
  LET r == apply_action(copy(t[n].state, "S", "new_state"), "new_state",
                        candidate.name, candidate.params, oob)
  IN add_child([t EXCEPT ![n].state = Own(r.c, "S")], n,
               MCTSNode(Own(r.c, "new_state"), n, candidate, t[n].depth))

(* expand: new_state shares the buffers of the node's state until       *)
(* apply_action un-shares them; the result of apply_action is ignored.  *)
expand(t, n, candidate, oob) ==
  LET r == apply_action(copy(t[n].state, "S", "new_state"), "new_state",
                        candidate.name, candidate.params, oob)
  IN add_child([t EXCEPT ![n].state = Own(r.c, "S")], n,
               MCTSNode(Own(r.c, "new_state"), n, candidate,
                        t[n].depth + 1))

(* 1000 * ln(v) for v = 1..16 *)
Ln1000(v) ==
  <<0, 693, 1099, 1386, 1609, 1792, 1946, 2079, 2197, 2303, 2398, 2485,
    2565, 2639, 2708, 2773>>[v]

(* floor(sqrt(x)) for 0 <= x < 152 * 152 *)
isqrt(x) == CHOOSE r \in 0..151 : r * r <= x /\ x < (r + 1) * (r + 1)

(* The UCT score of child ch of node n as a float: +inf, NaN (log of    *)
(* zero visits of the node), or the fraction num / den with the        *)
(* exploration term cut to hundredths; with weight 0 the term is 0      *)
(* whatever the finite square root is.                                  *)
uct_score(t, n, ch, exploration_weight) ==
  IF t[ch].visits = 0 THEN [kind |-> "inf"]
  ELSE IF t[n].visits = 0 THEN [kind |-> "nan"]
  ELSE [kind |-> "num",
        num |-> 100 * t[ch].total_reward
                + (IF exploration_weight = 0 THEN 0
                   ELSE exploration_weight * MuDen * t[ch].visits
                        * isqrt((Ln1000(t[n].visits) * 10)
                                  \div t[ch].visits)),
        den |-> 100 * MuDen * t[ch].visits]

score_ge(score, best_score) ==
  IF score.kind = "nan" \/ best_score.kind = "nan" THEN FALSE
  ELSE IF score.kind = "inf" THEN TRUE
  ELSE IF best_score.kind = "inf" THEN FALSE
  ELSE IF best_score.kind = "lowest" THEN TRUE
  ELSE score.num * best_score.den >= best_score.num * score.den

(* score > best_score on floats; "lowest" is numeric_limits::lowest(). *)
score_gt(score, best_score) ==
  IF score.kind = "nan" \/ best_score.kind = "nan" THEN FALSE
  ELSE IF score.kind = "inf" THEN best_score.kind # "inf"
  ELSE IF best_score.kind = "inf" THEN FALSE
  ELSE IF best_score.kind = "lowest" THEN TRUE
  ELSE \/ score.num \div score.den > best_score.num \div best_score.den
       \/ /\ score.num \div score.den = best_score.num \div best_score.den
          /\ (score.num % score.den) * best_score.den
               > (best_score.num % best_score.den) * score.den

RECURSIVE best_child_from(_, _, _, _, _, _)
(* The loop of best_child from child position i on. *)
best_child_from(t, n, exploration_weight, i, best_score, best) ==
  IF i > Len(t[n].children) THEN best
  ELSE IF score_gt(uct_score(t, n, t[n].children[i], exploration_weight),
                   best_score)
  THEN best_child_from(t, n, exploration_weight, i + 1,
                       uct_score(t, n, t[n].children[i],
                                 exploration_weight),
                       t[n].children[i])
  ELSE best_child_from(t, n, exploration_weight, i + 1, best_score, best)

best_child(t, n, exploration_weight) ==
  IF t[n].children = <<>> THEN 0
  ELSE best_child_from(t, n, exploration_weight, 1, [kind |-> "lowest"], 0)

backpropagate_node_only(t, n, reward) ==
  IF n = 0 THEN t
  ELSE [t EXCEPT ![n].visits = @ + 1, ![n].total_reward = @ + reward]

RECURSIVE backpropagate(_, _, _)
backpropagate(t, n, reward) ==
  IF n = 0 THEN t
  ELSE backpropagate([t EXCEPT ![n].visits = @ + 1,
                               ![n].total_reward = @ + reward],
                     t[n].parent, reward)

(* ------------------------------------------------------------------ *)
(* The node operations called in any order on one tree                 *)
(* ------------------------------------------------------------------ *)
MaxNodes == 4
MaxVisits == 2

(* Rewards handed to backpropagate, as MuDen times the float. *)
Rewards == {0 - 1, 300}

(* Jig 1 waits on the beluga trailer in front of a rack; the beluga     *)
(* demands its type.  Jig 0 is registered but not on the site.          *)
ScenarioTree ==
  ProblemState(<<Jig("typeA", TRUE), Jig("typeA", TRUE)>>,
               <<Beluga(<<>>, <<TA>>)>>,
               <<1>>, <<-1>>,
               <<Rack(10, <<>>)>>,
               <<>>,
               <<-1>>)

(* What an out-of-range jig lookup can yield in calls on a node's state. *)
NodeOob(t, n) ==
  [here : OobReadsAny(t[n].state, "S"), copy : OobReadsAny(t[n].state, "S")]

(* The actions expand is called with: the untried enumerated ones. *)
ExpandInputs(t, n, oob) == SeqToSet(get_untried_actions(t, n, oob))

InitTree ==
  /\ heap = ScenarioTree.heap
  /\ objs = ScenarioTree.objs
  /\ emptied = 0
  /\ ret = [op |-> "construct"]
  /\ tree = <<MCTSNode(ScenarioTree, 0, NoAction, 0)>>
  /\ workers = <<>>
  /\ twin = <<>>
  /\ mcts = [pc |-> "none"]

(* tree[n].expand(candidate) *)
Expand(n) ==
  /\ n \in 1..Len(tree)
  /\ Len(tree) < MaxNodes
  /\ \E oob \in NodeOob(tree, n) :
       \E candidate \in ExpandInputs(tree, n, oob) :
         /\ tree' = expand(tree, n, candidate, oob.here)
         /\ ret' = [op |-> "expand", node |-> n, candidate |-> candidate]
  /\ UNCHANGED <<snapshot_vars, twin, workers, mcts>>

(* tree[n].backpropagate(reward) *)
Backpropagate(n) ==
  /\ n \in 1..Len(tree)
  /\ tree[1].visits < MaxVisits
  /\ \E reward \in Rewards :
       /\ tree' = backpropagate(tree, n, reward)
       /\ ret' = [op |-> "backpropagate", node |-> n, reward |-> reward]
  /\ UNCHANGED <<snapshot_vars, twin, workers, mcts>>

(* tree[n].best_child(exploration_weight) *)
BestChild(n) ==
  /\ n \in 1..Len(tree)
  /\ \E exploration_weight \in {0, 1} :
       ret' = [op |-> "best_child", node |-> n,
               exploration_weight |-> exploration_weight,
               out |-> best_child(tree, n, exploration_weight)]
  /\ UNCHANGED <<snapshot_vars, search_vars>>

(* tree[n].get_untried_actions() *)
GetUntriedActions(n) ==
  /\ n \in 1..Len(tree)
  /\ \E oob \in NodeOob(tree, n) :
       ret' = [op |-> "get_untried_actions", node |-> n,
               out |-> get_untried_actions(tree, n, oob)]
  /\ UNCHANGED <<snapshot_vars, search_vars>>

NextTree ==
  \/ \E n \in 1..MaxNodes : Expand(n)
  \/ \E n \in 1..MaxNodes : Backpropagate(n)
  \/ \E n \in 1..MaxNodes : BestChild(n)
  \/ \E n \in 1..MaxNodes : GetUntriedActions(n)

SpecTree == InitTree /\ [][NextTree]_vars

(* C15: on every node with at least one visited child, best_child(0)   *)
(* returns a child that has been visited, whatever unvisited children   *)
(* the node has besides.                                                *)
C15_GreedyAvoidsUnvisited ==
  \A n \in 1..Len(tree) :
    (\E i \in 1..Len(tree[n].children) : tree[tree[n].children[i]].visits > 0)
      => /\ best_child(tree, n, 0) # 0
         /\ tree[best_child(tree, n, 0)].visits > 0

RECURSIVE PathToRoot(_, _)
(* Node n and its ancestors. *)
PathToRoot(t, n) ==
  IF n = 0 THEN {} ELSE {n} \cup PathToRoot(t, t[n].parent)

(* C16: backpropagate(reward) on node n adds 1 to visits and reward to  *)
(* total_reward of n and of each of its ancestors up to the root, and   *)
(* leaves every other node and every other field as it was.             *)
C16_BackpropagateFrame ==
  [][ret'.op = "backpropagate" =>
       /\ Len(tree') = Len(tree)
       /\ \A m \in 1..Len(tree) :
            tree'[m] =
              IF m \in PathToRoot(tree, ret'.node)
              THEN [tree[m] EXCEPT !.visits = @ + 1,
                                   !.total_reward = @ + ret'.reward]
              ELSE tree[m]]_vars

(* backpropagate has just run from a grandchild of the root while a     *)
(* visited node lies off its path.                                      *)
C16_Witness ==
  /\ ret.op = "backpropagate"
  /\ tree[ret.node].depth = 2
  /\ \E m \in 1..Len(tree) :
       m \notin PathToRoot(tree, ret.node) /\ tree[m].visits > 0

(* C17: expand(a) on node n with a legal in n's state leaves n's state  *)
(* and statistics as they were, appends one child at the end of n's     *)
(* children, and the child has action a, depth one more than n, no      *)
(* visits, no reward, parent n, no children, and the state that a       *)
(* yields on a copy of n's state; the other nodes are untouched.        *)
C17_ExpandAddsOneChild ==
  [][ret'.op = "expand" =>
       \A oob \in OobReadsAny(tree[ret'.node].state, "S") :
         LET n == ret'.node
             a == ret'.candidate
             r == apply_action(tree[n].state, "S", a.name, a.params, oob)
             child == tree'[Len(tree')]
         IN r.ok =>
              /\ Len(tree') = Len(tree) + 1
              /\ \A m \in 1..Len(tree) :
                   tree'[m] =
                     IF m = n
                     THEN [tree[m] EXCEPT
                             !.children = Append(@, Len(tree'))]
                     ELSE tree[m]
              /\ child.action = a
              /\ child.depth = tree[n].depth + 1
              /\ child.visits = 0 /\ child.total_reward = 0
              /\ child.parent = n
              /\ child.children = <<>>
              /\ Deref(child.state, "S") = Deref(r.c, "S")]_vars

(* expand has just added a second child below a visited non-root node   *)
(* by an action that changed the snapshot.                              *)
C17_Witness ==
  /\ ret.op = "expand"
  /\ ret.node # 1
  /\ tree[ret.node].visits > 0
  /\ Len(tree[ret.node].children) = 2
  /\ Deref(tree[Len(tree)].state, "S") # Deref(tree[ret.node].state, "S")

(* ------------------------------------------------------------------ *)
(* MCTS: the sequential driver.  What the random generator decides is  *)
(* a nondeterministic choice; one value oob stands for what the        *)
(* out-of-range jig lookups of one iteration yield.                    *)
(* ------------------------------------------------------------------ *)
ParallelThreshold == 100
RolloutCap == 50

min(a, b) == IF a < b THEN a ELSE b

RECURSIVE select_from_unbounded(_, _, _, _, _)
select_from_unbounded(t, node, current_depth, depth, oob) ==
  IF ~node_is_terminal(t, node) /\ is_fully_expanded(t, node, oob)
  THEN IF best_child(t, node, 1) = 0 THEN node
       ELSE select_from_unbounded(t, best_child(t, node, 1),
                                  current_depth + 1, depth, oob)
  ELSE node

RECURSIVE select_from(_, _, _, _, _)
(* The loop of select with node and current_depth as they stand. *)
select_from(t, node, current_depth, depth, oob) ==
  IF /\ ~node_is_terminal(t, node)
     /\ is_fully_expanded(t, node, oob)
     /\ current_depth < depth
  THEN IF best_child(t, node, 1) = 0 THEN node
       ELSE select_from(t, best_child(t, node, 1), current_depth + 1,
                        depth, oob)
  ELSE node

select(t, node, depth, oob) == select_from(t, node, 0, depth, oob)

RECURSIVE rollout_from(_, _, _, _, _, _)
RECURSIVE rollout_body(_, _, _, _, _, _, _)
(* The body of the loop of rollout_single once possible_actions is      *)
(* known: the rewards the rollout can end with from here.               *)
rollout_body(c, current_depth, actions_taken, max_steps, depth, oob, pa) ==
  IF pa = <<>>
  THEN {evaluate(c, "state", current_depth, 1)}
  ELSE UNION {rollout_from(apply_action(c, "state", action.name,
                                        action.params, oob.here).c,
                           current_depth + 1, actions_taken + 1,
                           max_steps, depth, oob) :
                action \in SeqToSet(pa)}

(* The loop of rollout_single on the local object "state" of c; when    *)
(* the loop condition fails no action is asked for.                     *)
rollout_from(c, current_depth, actions_taken, max_steps, depth, oob) ==
  rollout_body(c, current_depth, actions_taken, max_steps, depth, oob,
               IF \/ is_terminal(c, "state")
                  \/ current_depth >= depth
                  \/ actions_taken >= max_steps
               THEN <<>>
               ELSE get_possible_actions(c, "state", oob))

rollout_single_at_zero(t, node, depth, oob) ==
  rollout_from(copy(t[node].state, "S", "state"), 0, 0,
               min(RolloutCap, depth), depth, oob)

(* rollout_single works on a copy of the node's state, which it leaves  *)
(* as it is; the result is the set of rewards it can return.            *)
rollout_single(t, node, depth, oob) ==
  rollout_from(copy(t[node].state, "S", "state"), t[node].depth, 0,
               min(RolloutCap, depth - t[node].depth), depth, oob)

(* Step 2 of an iteration once untried_actions is known: the trees      *)
(* expansion can leave, each with the node the iteration goes on with.  *)
expand_random(t, node, oob, untried_actions) ==
  IF untried_actions # <<>>
  THEN {[t |-> expand(t, node, action, oob.here), node |-> Len(t) + 1] :
          action \in SeqToSet(untried_actions)}
  ELSE {[t |-> t, node |-> node]}

(* Step 2 of an iteration: a terminal node is not asked for its         *)
(* untried actions.                                                     *)
expansions(t, node, oob) ==
  expand_random(t, node, oob,
                IF node_is_terminal(t, node) THEN <<>>
                ELSE get_untried_actions(t, node, oob))

search_iteration_twice(t, depth, oob) ==
  UNION {{[t |-> backpropagate(backpropagate(e.t, e.node, reward),
                               e.node, reward),
           node |-> e.node, reward |-> reward] :
            reward \in rollout_single(e.t, e.node, depth, oob)} :
           e \in expansions(t, select(t, 1, depth, oob), oob)}

(* One pass of the loop body of search: the outcomes it can have, with  *)
(* the node backpropagate starts from and the reward.                   *)
search_iteration(t, depth, oob) ==
  UNION {{[t |-> backpropagate(e.t, e.node, reward),
           node |-> e.node, reward |-> reward] :
            reward \in rollout_single(e.t, e.node, depth, oob)} :
           e \in expansions(t, select(t, 1, depth, oob), oob)}

(* ------------------------------------------------------------------ *)
(* MCTS::search on a fresh root                                        *)
(* ------------------------------------------------------------------ *)
MaxSims == 3
MaxSearchDepth == 2

(* ScenarioTree with a second rack: two actions are open at the root. *)
ScenarioFork ==
  ProblemState(<<Jig("typeA", TRUE), Jig("typeA", TRUE)>>,
               <<Beluga(<<>>, <<TA>>)>>,
               <<1>>, <<-1>>,
               <<Rack(10, <<>>), Rack(4, <<>>)>>,
               <<>>,
               <<-1>>)

(* A beluga waits for a typeA jig, but no jig is on the site. *)
ScenarioStuck ==
  ProblemState(<<Jig("typeA", TRUE)>>,
               <<Beluga(<<>>, <<TA>>)>>,
               <<-1>>, <<-1>>,
               <<Rack(10, <<>>)>>,
               <<>>,
               <<-1>>)

(* Nothing left to do: no beluga, no production line. *)
ScenarioDone ==
  ProblemState(<<Jig("typeA", TRUE)>>,
               <<>>,
               <<-1>>, <<-1>>,
               <<Rack(10, <<>>)>>,
               <<>>,
               <<-1>>)

(* Root snapshots of the searches.  No rack of theirs ever receives     *)
(* jig 0, so no jig lookup leaves the registry.                         *)
SearchSnapshots ==
  {ScenarioTree, ScenarioFork, ScenarioDemand, ScenarioStuck, ScenarioDone}

(* MCTS(root, depth, n_simulations, debug, num_threads) on a fresh root; *)
(* the constructor leaves num_threads >= 1.  The long run that reaches   *)
(* the threshold of the parallel mode is made on the finished site.      *)
InitSearch ==
  /\ heap = ScenarioTree.heap
  /\ objs = ScenarioTree.objs
  /\ emptied = 0
  /\ ret = [op |-> "construct"]
  /\ workers = <<>>
  /\ twin = <<>>
  /\ \E snap \in SearchSnapshots, depth \in 0..MaxSearchDepth,
        n_simulations \in (0..MaxSims) \cup {ParallelThreshold},
        num_threads \in {1, 2} :
       /\ n_simulations > MaxSims => snap = ScenarioDone /\ depth = 1
       /\ tree = <<MCTSNode(snap, 0, NoAction, 0)>>
       /\ mcts = [pc |-> "constructed", depth |-> depth,
                  n_simulations |-> n_simulations,
                  num_threads |-> num_threads, sim |-> 0]

(* search() is called and decides between the two modes. *)
Search ==
  /\ mcts.pc = "constructed"
  /\ mcts' = [mcts EXCEPT
                !.pc = IF /\ mcts.num_threads > 1
                          /\ mcts.n_simulations >= ParallelThreshold
                       THEN "search_root_parallel" ELSE "loop"]
  /\ ret' = [op |-> "search_called"]
  /\ UNCHANGED <<snapshot_vars, twin, tree, workers>>

(* One pass of the for loop of search. *)
SearchIteration ==
  /\ mcts.pc = "loop"
  /\ mcts.sim < mcts.n_simulations
  /\ \E oob \in NodeOob(tree, 1) :
       \E it \in search_iteration(tree, mcts.depth, oob) :
         /\ tree' = it.t
         /\ ret' = [op |-> "iteration", node |-> it.node,
                    reward |-> it.reward]
  /\ mcts' = [mcts EXCEPT !.sim = @ + 1]
  /\ UNCHANGED <<snapshot_vars, twin, workers>>

(* The loop is over: search returns root->best_child(0.0f). *)
SearchReturn ==
  /\ mcts.pc = "loop"
  /\ mcts.sim >= mcts.n_simulations
  /\ mcts' = [mcts EXCEPT !.pc = "returned"]
  /\ ret' = [op |-> "search", out |-> best_child(tree, 1, 0)]
  /\ UNCHANGED <<snapshot_vars, twin, tree, workers>>

(* mcts.select(root), called between searches. *)
Select ==
  /\ mcts.pc \in {"constructed", "returned"}
  /\ \E oob \in NodeOob(tree, 1) :
       ret' = [op |-> "select", out |-> select(tree, 1, mcts.depth, oob)]
  /\ UNCHANGED <<snapshot_vars, search_vars>>

NextSearch ==
  \/ Search
  \/ SearchIteration
  \/ SearchReturn
  \/ Select

SpecSearch == InitSearch /\ [][NextSearch]_vars

(* A step of the for loop as the loop counter and the position show it: *)
(* one more pass, or the exit.                                          *)
LoopStep ==
  /\ mcts.pc = "loop"
  /\ mcts' \in {[mcts EXCEPT !.sim = @ + 1], [mcts EXCEPT !.pc = "returned"]}

(* The calling thread keeps running: a started loop goes on. *)
LiveSearch == SpecSearch /\ WF_mcts(LoopStep)

(* Some call of apply_action succeeds on the object "S" of c. *)
HasLegalAction(c) ==
  \E name \in KnownActions, params \in ParamLists :
    apply_action(c, "S", name, params, 0).ok

RECURSIVE SumOver(_, _, _)
(* The sum of field f over the nodes listed in ids. *)
SumOver(t, ids, f) ==
  IF ids = <<>> THEN 0 ELSE t[Head(ids)][f] + SumOver(t, Tail(ids), f)

(* C14: during and after the sequential loop of search with depth >= 1  *)
(* on a fresh root whose state is not terminal and has a legal action,  *)
(* after k iterations the root has k visits and its children have k     *)
(* visits between them.                                                 *)
C14_VisitAccounting ==
  (/\ mcts.pc \in {"loop", "returned"}
   /\ mcts.depth >= 1
   /\ ~node_is_terminal(tree, 1)
   /\ HasLegalAction(tree[1].state))
    => /\ tree[1].visits = mcts.sim
       /\ SumOver(tree, tree[1].children, "visits") = mcts.sim

(* C18: search runs its sequential loop exactly when num_threads <= 1   *)
(* or n_simulations < 100; every iteration adds at most one node and    *)
(* backpropagates once (one more visit at the root, at most one more at *)
(* any node); the call returns after exactly n_simulations iterations   *)
(* with root.best_child(0.0), which is null exactly when the root has   *)
(* no children, as for a terminal root or one without a legal action;   *)
(* every pass of a started loop has an outcome, and the loop returns.   *)
C18_SequentialSearch ==
  /\ [][/\ ret'.op = "search_called" =>
             (mcts'.pc = "loop" <=>
                (mcts.num_threads <= 1
                   \/ mcts.n_simulations < ParallelThreshold))
        /\ ret'.op = "iteration" =>
             /\ Len(tree') \in {Len(tree), Len(tree) + 1}
             /\ tree'[1].visits = tree[1].visits + 1
             /\ \A m \in 1..Len(tree) :
                  tree'[m].visits \in {tree[m].visits, tree[m].visits + 1}
        /\ ret'.op = "search" =>
             /\ mcts.sim = mcts.n_simulations
             /\ tree[1].visits = mcts.n_simulations
             /\ tree' = tree
             /\ ret'.out = best_child(tree, 1, 0)
             /\ ret'.out = 0 <=> tree[1].children = <<>>
             /\ (node_is_terminal(tree, 1)
                   \/ ~HasLegalAction(tree[1].state)) => ret'.out = 0
       ]_vars
  /\ [](mcts.pc = "loop" =>
          IF mcts.sim < mcts.n_simulations
          THEN \E oob \in NodeOob(tree, 1) :
                 search_iteration(tree, mcts.depth, oob) # {}
          ELSE mcts.sim = mcts.n_simulations)
  /\ (mcts.pc = "loop") ~> (mcts.pc = "returned")

(* A search with two threads configured and fewer than 100 simulations  *)
(* has run its loop and returned a child of a root with two children.   *)
C18_Witness ==
  /\ mcts.pc = "returned"
  /\ mcts.num_threads = 2
  /\ mcts.sim = MaxSims
  /\ Len(tree[1].children) = 2
  /\ ret.op = "search" /\ ret.out # 0

(* A search on a non-terminal root without any legal action has         *)
(* returned null after its iterations.                                  *)
C18_WitnessNull ==
  /\ mcts.pc = "returned"
  /\ mcts.sim = MaxSims
  /\ ~node_is_terminal(tree, 1)
  /\ ~HasLegalAction(tree[1].state)
  /\ ret.op = "search" /\ ret.out = 0

(* ------------------------------------------------------------------ *)
(* MCTS::search_root_parallel.  A worker is [tree, sim, pc]: its own   *)
(* tree over a copy of the root state, its loop counter, and whether   *)
(* its search still runs; workers are listed in launch order.          *)
(* ------------------------------------------------------------------ *)
(* One call of search_single_iteration: the outcomes it can have, each *)
(* with the tree it leaves and the value it returns.  A child just      *)
(* created with a terminal state is evaluated without a rollout; a      *)
(* terminal node that was there before gets no reward at all.           *)
search_single_iteration(t, depth, oob) ==
  UNION {IF e.node > Len(t) /\ node_is_terminal(e.t, e.node)
         THEN {[t |-> backpropagate(e.t, e.node,
                                    evaluate(e.t[e.node].state, "S",
                                             e.t[e.node].depth, 1)),
                out |-> TRUE]}
         ELSE IF ~node_is_terminal(e.t, e.node)
         THEN {[t |-> backpropagate(e.t, e.node, reward), out |-> FALSE] :
                 reward \in rollout_single(e.t, e.node, depth, oob)}
         ELSE {[t |-> e.t, out |-> FALSE]} :
           e \in expansions(t, select(t, 1, depth, oob), oob)}

(* operator< of std::string on the action names that occur. *)
NameOrder ==
  <<"", "deliver_to_hangar", "get_from_hangar", "left_stack_rack",
    "left_unstack_rack", "load_beluga", "right_stack_rack",
    "right_unstack_rack", "unload_beluga">>

NameRank(name) == CHOOSE i \in 1..Len(NameOrder) : NameOrder[i] = name

RECURSIVE vector_less(_, _)
(* operator< of std::vector<int>: lexicographic. *)
vector_less(a, b) ==
  IF b = <<>> THEN FALSE
  ELSE IF a = <<>> THEN TRUE
  ELSE IF Head(a) # Head(b) THEN Head(a) < Head(b)
  ELSE vector_less(Tail(a), Tail(b))

(* operator< of std::pair<std::string, std::vector<int>> *)
action_less(a, b) ==
  \/ NameRank(a.name) < NameRank(b.name)
  \/ a.name = b.name /\ vector_less(a.params, b.params)

RECURSIVE in_key_order(_)
(* The keys of a std::map in iteration order. *)
in_key_order(keys) ==
  IF keys = {} THEN <<>>
  ELSE LET first == CHOOSE a \in keys :
                      \A b \in keys \ {a} : action_less(a, b)
       IN <<first>> \o in_key_order(keys \ {first})

RECURSIVE stats_of_children(_, _, _, _)
(* What the children ids of tree t add to the map entry of `action`. *)
stats_of_children(t, ids, action, stats) ==
  IF ids = <<>> THEN stats
  ELSE stats_of_children(
         t, Tail(ids), action,
         IF t[Head(ids)].action = action
         THEN [total_reward |-> stats.total_reward
                                  + t[Head(ids)].total_reward,
               visits |-> stats.visits + t[Head(ids)].visits]
         ELSE stats)

RECURSIVE stats_of_roots(_, _, _)
(* The map entry of `action` after the listed thread roots have been    *)
(* processed in order.                                                  *)
stats_of_roots(thread_roots, action, stats) ==
  IF thread_roots = <<>> THEN stats
  ELSE stats_of_roots(
         Tail(thread_roots), action,
         stats_of_children(Head(thread_roots),
                           Head(thread_roots)[1].children, action, stats))

(* merged_results: the keys and the entry of each key. *)
merged_keys(thread_roots) ==
  UNION {{t[t[1].children[i]].action : i \in 1..Len(t[1].children)} :
           t \in SeqToSet(thread_roots)}

merged_stats(thread_roots, action) ==
  stats_of_roots(thread_roots, action, [total_reward |-> 0, visits |-> 0])

existing_child_overlooked(t, action) == 0

(* The position in root.children of the first child with `action`, or 0. *)
existing_child(t, action) ==
  IF \E i \in 1..Len(t[1].children) : t[t[1].children[i]].action = action
  THEN CHOOSE i \in 1..Len(t[1].children) :
         /\ t[t[1].children[i]].action = action
         /\ \A k \in 1..(i - 1) : t[t[1].children[k]].action # action
  ELSE 0

transfer_one_visit(t, action, stats, oob) ==
  LET r == apply_action(copy(t[1].state, "S", "new_state"), "new_state",
                        action.name, action.params, oob)
  IN Append([t EXCEPT ![1].children = Append(@, Len(t) + 1)],
            [MCTSNode(Own(r.c, "new_state"), 1, action, 0)
               EXCEPT !.total_reward = stats.total_reward,
                      !.visits = 1])

(* One pass of the transfer loop: the entry of `action` goes to the     *)
(* root's child with that action, which is created if there is none.    *)
transfer(t, action, stats, oob) ==
  IF existing_child(t, action) # 0
  THEN [t EXCEPT
          ![t[1].children[existing_child(t, action)]].total_reward =
             stats.total_reward,
          ![t[1].children[existing_child(t, action)]].visits =
             stats.visits]
  ELSE LET r == apply_action(copy(t[1].state, "S", "new_state"),
                             "new_state", action.name, action.params, oob)
       IN Append([t EXCEPT ![1].children = Append(@, Len(t) + 1)],
                 [MCTSNode(Own(r.c, "new_state"), 1, action, 0)
                    EXCEPT !.total_reward = stats.total_reward,
                           !.visits = stats.visits])

RECURSIVE transfer_all(_, _, _, _)
transfer_all(t, keys, thread_roots, oob) ==
  IF keys = <<>> THEN t
  ELSE transfer_all(transfer(t, Head(keys),
                             merged_stats(thread_roots, Head(keys)), oob),
                    Tail(keys), thread_roots, oob)

root_totals_keep(t) == t

(* root->visits and root->total_reward recomputed from the children. *)
root_totals(t) ==
  [t EXCEPT ![1].visits = SumOver(t, t[1].children, "visits"),
            ![1].total_reward = SumOver(t, t[1].children, "total_reward")]

merge_adopting(t, thread_roots, oob) == root_totals(thread_roots[1])

(* Merge, transfer and root totals, as run after the last future.get(). *)
merge(t, thread_roots, oob) ==
  root_totals(transfer_all(t, in_key_order(merged_keys(thread_roots)),
                           thread_roots, oob))

MaxParSims == 4
MaxCalls == 2

(* The shortest run that hands each of two workers enough simulations   *)
(* for the threshold of search().                                       *)
LongRun == 2 * ParallelThreshold

(* Root snapshots of the parallel searches. *)
ParallelSnapshots == {ScenarioFork, ScenarioDone, ScenarioTree}

(* A hardware_concurrency() that does not divide the 100 simulations    *)
(* of a worker of the long run.                                         *)
ManyCores == 8

(* get_hardware_threads() for what hardware_concurrency() reports. *)
get_hardware_threads(hardware_concurrency) ==
  IF hardware_concurrency > 0 THEN hardware_concurrency ELSE 1

(* A fresh root node over a copy of the state of node 1 of tree t. *)
thread_root(t) ==
  <<MCTSNode(Own(copy(t[1].state, "S", "thread_state"), "thread_state"),
             0, NoAction, 0)>>

RECURSIVE search_loop(_, _, _, _)
(* The trees the for loop of search can leave after n more passes,      *)
(* started on one of the trees of T.                                    *)
search_loop(T, depth, n, oob) ==
  IF n <= 0 THEN T
  ELSE search_loop(UNION {{it.t : it \in search_iteration(t, depth, oob)} :
                            t \in T},
                   depth, n - 1, oob)

sims_per_thread(n_simulations, thread_count) ==
  IF n_simulations \div thread_count < 1 THEN 1
  ELSE n_simulations \div thread_count

RECURSIVE search_of_worker(_, _, _, _, _)
(* thread_mcts.search() of a worker, run to its end on the worker's own *)
(* root t: its MCTS was constructed without num_threads, so it has as   *)
(* many threads as the hardware, and search() goes root-parallel again  *)
(* when it has more than one thread and n_simulations reaches the       *)
(* threshold.  The result is the set of trees t can be left as.         *)
search_of_worker(t, depth, n_simulations, hardware_threads, oob) ==
  IF hardware_threads > 1 /\ n_simulations >= ParallelThreshold
  THEN {merge(t, thread_roots, oob.here) :
          thread_roots \in
            [1..hardware_threads ->
               search_of_worker(thread_root(t), depth,
                                sims_per_thread(n_simulations,
                                                hardware_threads),
                                hardware_threads, oob)]}
  ELSE search_loop({t}, depth, n_simulations, oob)

(* The long run is made on the finished site, where a pass of the loop  *)
(* has one outcome, and on a machine with many cores on the site with   *)
(* one open action.                                                     *)
InitParallel ==
  /\ heap = ScenarioFork.heap
  /\ objs = ScenarioFork.objs
  /\ emptied = 0
  /\ ret = [op |-> "construct"]
  /\ workers = <<>>
  /\ twin = <<>>
  /\ \E snap \in ParallelSnapshots, depth \in 1..MaxSearchDepth,
        n_simulations \in (0..MaxParSims) \cup {LongRun},
        num_threads \in {1, 2}, hardware_concurrency \in {0, 2, ManyCores} :
       /\ n_simulations > MaxParSims =>
            /\ depth = 1 /\ num_threads = 2
            /\ snap = IF hardware_concurrency = ManyCores THEN ScenarioTree
                      ELSE ScenarioDone
       /\ n_simulations <= MaxParSims => hardware_concurrency = 2
       /\ tree = <<MCTSNode(snap, 0, NoAction, 0)>>
       /\ mcts = [pc |-> "constructed", depth |-> depth,
                  n_simulations |-> n_simulations,
                  num_threads |-> num_threads, sim |-> 0,
                  thread_count |-> 0, sims_per_thread |-> 0, calls |-> 0,
                  hardware_threads |->
                    get_hardware_threads(hardware_concurrency)]

(* search_root_parallel(thread_count) is called: with one thread it     *)
(* starts its own sequential loop, otherwise it launches the workers    *)
(* and waits for them.                                                  *)
SearchRootParallel ==
  /\ mcts.pc \in {"constructed", "returned"}
  /\ mcts.calls < MaxCalls
  /\ \E thread_count \in {0, 2} :
       \E tc \in {IF thread_count <= 0 THEN mcts.num_threads
                  ELSE thread_count} :
         /\ mcts' = [mcts EXCEPT
                       !.pc = IF tc = 1 THEN "single_loop" ELSE "waiting",
                       !.sim = 0, !.thread_count = tc,
                       !.sims_per_thread =
                          IF tc = 1 THEN 0
                          ELSE sims_per_thread(mcts.n_simulations, tc),
                       !.calls = @ + 1]
         /\ workers' =
              IF tc = 1 THEN <<>>
              ELSE [w \in 1..tc |->
                      [tree |-> <<>>, sim |-> 0, pc |-> "launched"]]
  /\ ret' = [op |-> "search_root_parallel_called"]
  /\ UNCHANGED <<snapshot_vars, twin, tree>>

(* One pass of the sequential loop of search_root_parallel. *)
SingleIteration ==
  /\ mcts.pc = "single_loop"
  /\ mcts.sim < mcts.n_simulations
  /\ \E oob \in NodeOob(tree, 1) :
       \E it \in search_single_iteration(tree, mcts.depth, oob) :
         /\ tree' = it.t
         /\ ret' = [op |-> "search_single_iteration", out |-> it.out]
  /\ mcts' = [mcts EXCEPT !.sim = @ + 1]
  /\ UNCHANGED <<snapshot_vars, twin, workers>>

(* The sequential loop of search_root_parallel is over. *)
SingleReturn ==
  /\ mcts.pc = "single_loop"
  /\ mcts.sim >= mcts.n_simulations
  /\ mcts' = [mcts EXCEPT !.pc = "returned"]
  /\ ret' = [op |-> "search_root_parallel", workers |-> 0,
             out |-> best_child(tree, 1, 0)]
  /\ UNCHANGED <<snapshot_vars, twin, tree, workers>>

(* Worker w starts to run: it copies the state of the shared root,      *)
(* builds its own root and its own MCTS over it and calls search(),     *)
(* which decides between the two modes.                                 *)
WorkerStart(w) ==
  /\ mcts.pc = "waiting"
  /\ w \in 1..Len(workers)
  /\ workers[w].pc = "launched"
  /\ workers' = [workers EXCEPT
                   ![w].tree = thread_root(tree),
                   ![w].pc = IF /\ mcts.hardware_threads > 1
                                /\ mcts.sims_per_thread >= ParallelThreshold
                             THEN "search_root_parallel" ELSE "loop"]
  /\ ret' = [op |-> "worker_start", worker |-> w]
  /\ UNCHANGED <<snapshot_vars, twin, tree, mcts>>

(* Worker w makes one pass of the loop of its thread_mcts.search(). *)
WorkerIteration(w) ==
  /\ mcts.pc = "waiting"
  /\ w \in 1..Len(workers)
  /\ workers[w].pc = "loop"
  /\ workers[w].sim < mcts.sims_per_thread
  /\ \E oob \in NodeOob(workers[w].tree, 1) :
       \E it \in search_iteration(workers[w].tree, mcts.depth, oob) :
         workers' = [workers EXCEPT ![w].tree = it.t, ![w].sim = @ + 1]
  /\ ret' = [op |-> "worker_iteration", worker |-> w]
  /\ UNCHANGED <<snapshot_vars, twin, tree, mcts>>

(* The search() of worker w went root-parallel: it launches workers of  *)
(* its own over its root, waits for them and merges their trees into    *)
(* its own.  Nothing but the tree of w is touched, so the run is taken  *)
(* as one step.                                                         *)
WorkerSearchRootParallel(w) ==
  /\ mcts.pc = "waiting"
  /\ w \in 1..Len(workers)
  /\ workers[w].pc = "search_root_parallel"
  /\ \E oob \in NodeOob(workers[w].tree, 1) :
       \E t \in search_of_worker(workers[w].tree, mcts.depth,
                                 mcts.sims_per_thread,
                                 mcts.hardware_threads, oob) :
         workers' = [workers EXCEPT ![w].tree = t, ![w].pc = "searched"]
  /\ ret' = [op |-> "worker_search_root_parallel", worker |-> w,
             workers |-> mcts.hardware_threads]
  /\ UNCHANGED <<snapshot_vars, twin, tree, mcts>>

WorkerReturn_publishing(w) ==
  /\ mcts.pc = "waiting"
  /\ w \in 1..Len(workers)
  /\ \/ workers[w].pc = "loop" /\ workers[w].sim >= mcts.sims_per_thread
     \/ workers[w].pc = "searched"
  /\ workers' = [workers EXCEPT ![w].pc = "finished"]
  /\ tree' = [tree EXCEPT ![1].visits = @ + workers[w].tree[1].visits + 1]
  /\ ret' = [op |-> "worker_return", worker |-> w]
  /\ UNCHANGED <<snapshot_vars, twin, mcts>>

(* The search() of worker w is over; w returns its thread_root. *)
WorkerReturn(w) ==
  /\ mcts.pc = "waiting"
  /\ w \in 1..Len(workers)
  /\ \/ workers[w].pc = "loop" /\ workers[w].sim >= mcts.sims_per_thread
     \/ workers[w].pc = "searched"
  /\ workers' = [workers EXCEPT ![w].pc = "finished"]
  /\ ret' = [op |-> "worker_return", worker |-> w]
  /\ UNCHANGED <<snapshot_vars, twin, tree, mcts>>

(* Every future.get() has returned: the main thread merges the thread   *)
(* roots in launch order, recomputes the root totals and returns        *)
(* root->best_child(0.0f).                                              *)
Merge ==
  /\ mcts.pc = "waiting"
  /\ \A w \in 1..Len(workers) : workers[w].pc = "finished"
  /\ \E oob \in OobReadsAny(tree[1].state, "S") :
       \E t \in {merge(tree, [w \in 1..Len(workers) |-> workers[w].tree],
                       oob)} :
         /\ tree' = t
         /\ ret' = [op |-> "search_root_parallel",
                    workers |-> Len(workers),
                    out |-> best_child(t, 1, 0)]
  /\ mcts' = [mcts EXCEPT !.pc = "returned"]
  /\ UNCHANGED <<snapshot_vars, twin, workers>>

NextParallel ==
  \/ SearchRootParallel
  \/ SingleIteration
  \/ SingleReturn
  \/ \E w \in {1, 2} : WorkerStart(w)
  \/ \E w \in {1, 2} : WorkerIteration(w)
  \/ \E w \in {1, 2} : WorkerSearchRootParallel(w)
  \/ \E w \in {1, 2} : WorkerReturn(w)
  \/ Merge

SpecParallel == InitParallel /\ [][NextParallel]_vars

(* The children of the root of tree t that carry `action`. *)
ChildrenWith(t, action) ==
  {i \in 1..Len(t[1].children) : t[t[1].children[i]].action = action}

RECURSIVE SumSet(_, _)
(* The sum of f(x) over the finite set S, f given as a function. *)
SumSet(S, f) ==
  IF S = {} THEN 0
  ELSE LET x == CHOOSE y \in S : TRUE IN f[x] + SumSet(S \ {x}, f)

(* The sum, over the workers, of field f of their root children that    *)
(* carry `action`.                                                      *)
WorkerSum(action, f) ==
  SumSet(1..Len(workers),
         [w \in 1..Len(workers) |->
            SumSet(ChildrenWith(workers[w].tree, action),
                   [i \in ChildrenWith(workers[w].tree, action) |->
                      workers[w].tree[workers[w].tree[1].children[i]][f]])])

(* C19: when search_root_parallel with two or more workers returns on   *)
(* a root that had no children, the root has exactly one child for      *)
(* every action some worker's root has a child for, with the workers'   *)
(* visits and rewards of that action summed, and no other child,        *)
(* however the workers' iterations and returns were interleaved.        *)
C19_MergeSumsPerAction ==
  [][(/\ ret'.op = "search_root_parallel"
      /\ ret'.workers >= 2
      /\ tree[1].children = <<>>)
       => /\ \A w \in 1..Len(workers) :
               \A i \in 1..Len(workers[w].tree[1].children) :
                 LET a == workers[w].tree[workers[w].tree[1].children[i]]
                            .action
                 IN /\ Cardinality(ChildrenWith(tree', a)) = 1
                    /\ \A k \in ChildrenWith(tree', a) :
                         /\ tree'[tree'[1].children[k]].visits
                              = WorkerSum(a, "visits")
                         /\ tree'[tree'[1].children[k]].total_reward
                              = WorkerSum(a, "total_reward")
          /\ \A k \in 1..Len(tree'[1].children) :
               \E w \in 1..Len(workers) :
                 ChildrenWith(workers[w].tree,
                              tree'[tree'[1].children[k]].action) # {}
    ]_vars

(* Two workers that expanded the same two actions in opposite orders    *)
(* have been merged into a root that had no children: each merged child *)
(* carries two visits.                                                  *)
C19_Witness ==
  /\ ret.op = "search_root_parallel" /\ ret.workers = 2
  /\ mcts.calls = 1
  /\ Len(tree[1].children) = 2
  /\ Len(workers[1].tree[1].children) = 2
  /\ Len(workers[2].tree[1].children) = 2
  /\ workers[1].tree[2].action # workers[2].tree[2].action
  /\ \A k \in 1..2 : tree[tree[1].children[k]].visits = 2

SomeWorkerRunning ==
  /\ mcts.pc = "waiting"
  /\ \E w \in 1..Len(workers) : workers[w].pc # "finished"

(* The step is one of worker w. *)
StepOf(w) == w \in 1..Len(workers) /\ workers'[w] # workers[w]

(* C21: during a search_root_parallel run, no step taken while some     *)
(* worker has not returned changes the shared tree or the snapshot it   *)
(* was built from; a step of a worker changes that worker alone; a      *)
(* worker's first step leaves it a root over a copy of the shared       *)
(* root's state, and a pass of its loop is a pass over its own tree.    *)
C21_ForkJoinIsolation ==
  [][/\ SomeWorkerRunning =>
          /\ tree' = tree
          /\ UNCHANGED snapshot_vars
     /\ mcts.pc = "waiting" =>
          \A w \in 1..Len(workers) :
            StepOf(w) =>
              /\ \A v \in 1..Len(workers) :
                   v # w => workers'[v] = workers[v]
              /\ workers[w].pc = "launched" =>
                   /\ Len(workers'[w].tree) = 1
                   /\ Deref(workers'[w].tree[1].state, "S")
                        = Deref(tree[1].state, "S")
              /\ workers[w].pc = "loop" /\ workers'[w].pc = "loop" =>
                   \E oob \in NodeOob(workers[w].tree, 1) :
                     \E it \in search_iteration(workers[w].tree,
                                                mcts.depth, oob) :
                       workers'[w].tree = it.t
    ]_vars

(* Worker 1 has returned and worker 2 is in the middle of its loop with *)
(* a child under its root, while the shared root of a second run still  *)
(* has the children and totals the first run left.                      *)
C21_Witness ==
  /\ mcts.pc = "waiting" /\ mcts.calls = 2
  /\ workers[1].pc = "finished"
  /\ workers[2].pc = "loop" /\ workers[2].sim = 1
  /\ Len(workers[2].tree) = 2
  /\ Len(workers[1].tree) = 2
  /\ Len(tree) = 2 /\ tree[1].visits = 2

(* C22: every worker runs the sequential loop of search on its own     *)
(* tree and returns after exactly sims_per_thread passes; none of them  *)
(* starts a root-parallel search of its own.                            *)
C22_WorkersSequential ==
  \A w \in 1..Len(workers) :
    /\ workers[w].pc \notin {"search_root_parallel", "searched"}
    /\ workers[w].pc = "finished" => workers[w].sim = mcts.sims_per_thread

(* ------------------------------------------------------------------ *)
(* Two sequential searches fed the same random draws                   *)
(* ------------------------------------------------------------------ *)
MaxDraw == 1

(* What rng yields during one pass of the loop: a pass asks for at most *)
(* one value per level of depth.                                        *)
Draws == [1..MaxSearchDepth -> 0..MaxDraw]

(* untried_actions[dist(rng)] and possible_actions[rng() % size]: the   *)
(* element a draw selects.                                              *)
drawn(list, draw) == list[(draw % Len(list)) + 1]

RECURSIVE rollout_drawn(_, _, _, _, _, _, _)
RECURSIVE rollout_step(_, _, _, _, _, _, _, _)
(* The loop of rollout_single with the values rng yields given: the     *)
(* reward it returns.                                                   *)
rollout_drawn(c, current_depth, actions_taken, max_steps, depth, oob, draws) ==
  IF \/ is_terminal(c, "state")
     \/ current_depth >= depth
     \/ actions_taken >= max_steps
  THEN evaluate(c, "state", current_depth, 1)
  ELSE rollout_step(c, current_depth, actions_taken, max_steps, depth, oob,
                    draws, get_possible_actions(c, "state", oob))

(* The body of that loop once possible_actions is known. *)
rollout_step(c, current_depth, actions_taken, max_steps, depth, oob, draws, pa) ==
  IF pa = <<>>
  THEN evaluate(c, "state", current_depth, 1)
  ELSE rollout_drawn(apply_action(c, "state", drawn(pa, Head(draws)).name,
                                  drawn(pa, Head(draws)).params,
                                  oob.here).c,
                     current_depth + 1, actions_taken + 1, max_steps,
                     depth, oob, Tail(draws))

(* Steps 3 and 4 of a pass on the tree and node that step 2 left. *)
rollout_and_backpropagate(e, depth, oob, draws) ==
  backpropagate(e.t, e.node,
                rollout_drawn(copy(e.t[e.node].state, "S", "state"),
                              e.t[e.node].depth, 0,
                              min(RolloutCap, depth - e.t[e.node].depth),
                              depth, oob, draws))

(* Step 2 of a pass with the draw given, then steps 3 and 4; rng is     *)
(* asked for the expansion only when there is an untried action.        *)
expand_drawn(t, node, depth, oob, draws, untried_actions) ==
  IF untried_actions # <<>>
  THEN rollout_and_backpropagate(
         [t |-> expand(t, node, drawn(untried_actions, Head(draws)),
                       oob.here),
          node |-> Len(t) + 1],
         depth, oob, Tail(draws))
  ELSE rollout_and_backpropagate([t |-> t, node |-> node], depth, oob,
                                 draws)

(* One pass of the loop of search when rng yields `draws`: the tree it  *)
(* leaves.                                                              *)
search_iteration_drawn(t, node, depth, oob, draws) ==
  expand_drawn(t, node, depth, oob, draws,
               IF node_is_terminal(t, node) THEN <<>>
               ELSE get_untried_actions(t, node, oob))

(* Both empty jigs wait on the beluga trailers, jig 0 among them: once  *)
(* jig 0 is in the rack, Rack::get_free_space looks up all_jigs[-1].    *)
ScenarioZero ==
  ProblemState(<<Jig("typeA", TRUE), Jig("typeA", TRUE)>>,
               <<Beluga(<<>>, <<TA>>)>>,
               <<0, 1>>, <<-1>>,
               <<Rack(10, <<>>)>>,
               <<>>,
               <<-1>>)

TwinSnapshots == {ScenarioZero, ScenarioFork}

(* What the out-of-range jig lookups of one pass yield. *)
IterationOob == {[here |-> x, copy |-> x] : x \in OobJigSizes}

(* Two drivers constructed over equal root snapshots with equal depth   *)
(* and n_simulations, each with one thread.                             *)
InitTwin ==
  /\ heap = ScenarioZero.heap
  /\ objs = ScenarioZero.objs
  /\ emptied = 0
  /\ ret = [op |-> "construct"]
  /\ workers = <<>>
  /\ \E snap \in TwinSnapshots, depth \in 1..MaxSearchDepth,
        n_simulations \in 0..MaxSims :
       /\ tree = <<MCTSNode(snap, 0, NoAction, 0)>>
       /\ twin = <<MCTSNode(snap, 0, NoAction, 0)>>
       /\ mcts = [pc |-> "loop", depth |-> depth,
                  n_simulations |-> n_simulations,
                  num_threads |-> 1, sim |-> 0]

(* Both searches make one pass of the loop, their generators yielding   *)
(* the same values; what a lookup outside the jig registry yields is    *)
(* each run's own.                                                      *)
TwinIteration ==
  /\ mcts.pc = "loop"
  /\ mcts.sim < mcts.n_simulations
  /\ \E draws \in Draws, oob \in IterationOob, twin_oob \in IterationOob :
       /\ tree' = search_iteration_drawn(
                    tree, select(tree, 1, mcts.depth, oob), mcts.depth,
                    oob, draws)
       /\ twin' = search_iteration_drawn(
                    twin, select(twin, 1, mcts.depth, twin_oob),
                    mcts.depth, twin_oob, draws)
  /\ mcts' = [mcts EXCEPT !.sim = @ + 1]
  /\ ret' = [op |-> "iteration"]
  /\ UNCHANGED <<snapshot_vars, workers>>

(* Both loops are over: each search returns root->best_child(0.0f). *)
TwinReturn ==
  /\ mcts.pc = "loop"
  /\ mcts.sim >= mcts.n_simulations
  /\ mcts' = [mcts EXCEPT !.pc = "returned"]
  /\ ret' = [op |-> "search", out |-> best_child(tree, 1, 0),
             twin_out |-> best_child(twin, 1, 0)]
  /\ UNCHANGED <<snapshot_vars, tree, twin, workers>>

NextTwin ==
  \/ TwinIteration
  \/ TwinReturn

SpecTwin == InitTwin /\ [][NextTwin]_vars

(* C23: two sequential searches from equal root snapshots with equal    *)
(* depth and n_simulations and the same random draws have equal trees   *)
(* after every pass, and return children with the same action.          *)
C23_SequentialDeterminism ==
  /\ tree = twin
  /\ ret.op = "search" =>
       /\ (ret.out = 0) = (ret.twin_out = 0)
       /\ ret.out # 0 => tree[ret.out].action = twin[ret.twin_out].action

(* C24: a call of search_single_iteration leaves the tree as one pass  *)
(* of the loop of search can leave it from the same tree, and returns   *)
(* true exactly when its expansion created a child with a terminal      *)
(* state.                                                               *)
C24_SingleIterationMatches ==
  [][ret'.op = "search_single_iteration" =>
       /\ \E oob \in NodeOob(tree, 1) :
            \E it \in search_iteration(tree, mcts.depth, oob) :
              tree' = it.t
       /\ ret'.out = (/\ Len(tree') > Len(tree)
                      /\ node_is_terminal(tree', Len(tree')))
    ]_vars

(* ------------------------------------------------------------------ *)
(* unload_beluga as a contract                                         *)
(* ------------------------------------------------------------------ *)
(* Snapshot s meets the stated success condition of unload_beluga. *)
UnloadBelugaEnabled(s) ==
  /\ s.belugas # <<>>
  /\ At(s.belugas, 0).current_jigs # <<>>
  /\ \E i \in 0..(Len(s.trailers_beluga) - 1) : At(s.trailers_beluga, i) = -1

(* The lowest index of an empty beluga trailer slot of s. *)
LowestEmpty(s) ==
  CHOOSE i \in 0..(Len(s.trailers_beluga) - 1) :
    /\ At(s.trailers_beluga, i) = -1
    /\ \A j \in 0..(i - 1) : At(s.trailers_beluga, j) # -1

(* The stated effect of a successful unload_beluga leads from s to s2. *)
UnloadBelugaEffect(s, s2) ==
  LET cargo == At(s.belugas, 0).current_jigs
      emptied_now == Len(cargo) = 1
  IN /\ s2.trailers_beluga
          = PutAt(s.trailers_beluga, LowestEmpty(s), Back(cargo))
     /\ s2.belugas_unloaded
          = s.belugas_unloaded + (IF emptied_now THEN 1 ELSE 0)
     /\ s2.belugas
          = IF emptied_now /\ At(s.belugas, 0).outgoing = <<>>
            THEN Tail(s.belugas)
            ELSE PutAt(s.belugas, 0,
                       [At(s.belugas, 0) EXCEPT
                          !.current_jigs = PopBack(cargo)])
     /\ s2.racks = s.racks
     /\ s2.hangars = s.hangars
     /\ s2.trailers_factory = s.trailers_factory
     /\ s2.production_lines = s.production_lines
     /\ s2.jigs = s.jigs

(* C25: unload_beluga returns true exactly when a beluga exists, its    *)
(* cargo is non-empty and some beluga trailer slot is empty; it then    *)
(* moves the last cargo jig to the lowest empty slot, counts the beluga *)
(* unloaded exactly if the cargo became empty, removes it exactly if    *)
(* its demand is empty too, and leaves racks, hangars, factory          *)
(* trailers, production lines and jigs alone.                           *)
C25_UnloadBeluga ==
  LET r == apply_action(Ctx, "S", "unload_beluga", <<>>, 0)
  IN /\ r.ok <=> UnloadBelugaEnabled(state)
     /\ r.ok => UnloadBelugaEffect(state, Deref(r.c, "S"))
     /\ ~r.ok => Deref(r.c, "S") = state

(* unload_beluga has just emptied the first of three belugas, which had *)
(* no demand: it is gone, and its two jigs stand on the trailers in the *)
(* order they left the cargo.                                           *)
C25_Witness ==
  /\ ret.op = "apply_action" /\ ret.ok
  /\ ret.action = <<Act("unload_beluga", <<>>)>>
  /\ Len(state.belugas) = 2
  /\ state.belugas_unloaded = 1
  /\ state.trailers_beluga = <<0, 1>>

(* ------------------------------------------------------------------ *)
(* deliver_to_hangar as a contract                                     *)
(* ------------------------------------------------------------------ *)
(* Line i of snapshot s has jig j as its first scheduled jig. *)
WaitsFor(s, i, j) ==
  /\ At(s.production_lines, i).scheduled_jigs # <<>>
  /\ At(At(s.production_lines, i).scheduled_jigs, 0) = j

(* Snapshot s meets the stated success condition of                     *)
(* deliver_to_hangar(h, t).                                             *)
DeliverEnabled(s, h, t) ==
  /\ is_valid_index(h, s.hangars)
  /\ is_valid_index(t, s.trailers_factory)
  /\ At(s.hangars, h) = -1
  /\ is_valid_index(At(s.trailers_factory, t), s.jigs)
  /\ ~At(s.jigs, At(s.trailers_factory, t)).empty
  /\ \E i \in 0..(Len(s.production_lines) - 1) :
       WaitsFor(s, i, At(s.trailers_factory, t))

(* The stated effect of a successful deliver_to_hangar(h, t) leads from *)
(* s to s2.                                                             *)
DeliverEffect(s, h, t, s2) ==
  LET j == At(s.trailers_factory, t)
      i == CHOOSE i \in 0..(Len(s.production_lines) - 1) :
             /\ WaitsFor(s, i, j)
             /\ \A k \in 0..(i - 1) : ~WaitsFor(s, k, j)
      rest == Tail(At(s.production_lines, i).scheduled_jigs)
  IN /\ s2.production_lines
          = IF rest = <<>>
            THEN SubSeq(s.production_lines, 1, i)
                   \o SubSeq(s.production_lines, i + 2,
                             Len(s.production_lines))
            ELSE PutAt(s.production_lines, i,
                       [At(s.production_lines, i) EXCEPT
                          !.scheduled_jigs = rest])
     /\ s2.production_lines_finished
          = s.production_lines_finished + (IF rest = <<>> THEN 1 ELSE 0)
     /\ s2.hangars = PutAt(s.hangars, h, j)
     /\ s2.jigs = PutAt(s.jigs, j, [At(s.jigs, j) EXCEPT !.empty = TRUE])
     /\ s2.trailers_factory = PutAt(s.trailers_factory, t, -1)

(* C26: deliver_to_hangar(h, t) returns true exactly when hangar h is   *)
(* empty, factory trailer t holds a loaded jig and some line has that   *)
(* jig first in its schedule; it then takes the jig off the head of the *)
(* lowest such line, puts it into the hangar, marks it empty, clears    *)
(* the trailer and, if the schedule became empty, removes that line and *)
(* counts it finished, the other lines keeping their order.             *)
C26_DeliverToHangar ==
  \A h \in ParamValues, t \in ParamValues :
    LET r == apply_action(Ctx, "S", "deliver_to_hangar", <<h, t>>, 0)
    IN /\ r.ok <=> DeliverEnabled(state, h, t)
       /\ r.ok => DeliverEffect(state, h, t, Deref(r.c, "S"))
       /\ ~r.ok => Deref(r.c, "S") = state

(* deliver_to_hangar(0, 0) has just served the second of three lines,   *)
(* the first of the two that waited for jig 0: the first and the third  *)
(* line remain, in that order.                                          *)
C26_Witness ==
  /\ ret.op = "apply_action" /\ ret.ok
  /\ ret.action = <<Act("deliver_to_hangar", <<0, 0>>)>>
  /\ state.production_lines
       = <<ProductionLine(<<1>>), ProductionLine(<<0, 1>>)>>
  /\ state.production_lines_finished = 1
  /\ state.hangars = <<0>>

(* ------------------------------------------------------------------ *)
(* The four rack actions as a double-ended buffer                      *)
(* ------------------------------------------------------------------ *)
(* Snapshot s with rack r holding `entries` and slot t of the trailer   *)
(* row `row` holding x; everything else as in s.                        *)
WithRackAndSlot(s, r, entries, row, t, x) ==
  [s EXCEPT !.racks = PutAt(@, r, [At(@, r) EXCEPT !.current_jigs = entries]),
            ![row] = PutAt(@, t, x)]

(* The stated effect of a successful stack on one side: the jig of slot *)
(* t is at the front (left) or at the back (right) of rack r, the slot  *)
(* is empty, and the same-side unstack with the same (r, t) succeeds    *)
(* and gives s back.                                                    *)
StackEffect(s, r, t, name, undo, row, res) ==
  LET entries == At(s.racks, r).current_jigs
      j == At(s[row], t)
  IN /\ Deref(res.c, "S")
          = WithRackAndSlot(s, r,
                            IF name = "left_stack_rack"
                            THEN <<j>> \o entries ELSE entries \o <<j>>,
                            row, t, -1)
     /\ apply_action(res.c, "S", undo, <<r, t>>, 0).ok
     /\ Deref(apply_action(res.c, "S", undo, <<r, t>>, 0).c, "S") = s

(* The stated effect of a successful unstack on one side. *)
UnstackEffect(s, r, t, name, row, res) ==
  LET entries == At(s.racks, r).current_jigs
  IN /\ entries # <<>>
     /\ At(s[row], t) = -1
     /\ Deref(res.c, "S")
          = IF name = "left_unstack_rack"
            THEN WithRackAndSlot(s, r, Tail(entries), row, t, Head(entries))
            ELSE WithRackAndSlot(s, r, PopBack(entries), row, t,
                                 Back(entries))

(* C27: a successful left_stack_rack puts the jig of the beluga trailer *)
(* at the front of the rack and right_stack_rack the jig of the factory *)
(* trailer at its back; left_unstack_rack takes the front entry to the  *)
(* empty beluga trailer and right_unstack_rack the back entry to the    *)
(* empty factory trailer; the other entries keep their order, nothing   *)
(* else changes, and the same-side unstack after a stack restores the   *)
(* snapshot.                                                            *)
C27_RackIsDeque ==
  \A r \in ParamValues, t \in ParamValues, oob \in OobJigSizes :
    /\ \A side \in {<<"left_stack_rack", "left_unstack_rack",
                      "trailers_beluga">>,
                    <<"right_stack_rack", "right_unstack_rack",
                      "trailers_factory">>} :
         /\ \A res \in {apply_action(Ctx, "S", side[1], <<r, t>>, oob)} :
              res.ok => StackEffect(state, r, t, side[1], side[2],
                                    side[3], res)
         /\ \A res \in {apply_action(Ctx, "S", side[2], <<r, t>>, oob)} :
              res.ok => UnstackEffect(state, r, t, side[2], side[3], res)

(* right_stack_rack(0, 0) has just put jig 0 behind jig 1 in the rack. *)
C27_Witness ==
  /\ ret.op = "apply_action" /\ ret.ok
  /\ ret.action = <<Act("right_stack_rack", <<0, 0>>)>>
  /\ At(state.racks, 0).current_jigs = <<1, 0>>
  /\ state.trailers_factory = <<-1>>

(* ------------------------------------------------------------------ *)
(* The order of get_possible_actions                                   *)
(* ------------------------------------------------------------------ *)
(* The action names in the order get_possible_actions asks for them. *)
EnumerationOrder == <<"unload_beluga">> \o param_actions

EnumerationRank(name) ==
  CHOOSE i \in 1..Len(EnumerationOrder) : EnumerationOrder[i] = name

(* Action a comes before action b: an earlier name, or the same name    *)
(* and lexicographically smaller parameters.                            *)
ListedBefore(a, b) ==
  \/ EnumerationRank(a.name) < EnumerationRank(b.name)
  \/ a.name = b.name /\ vector_less(a.params, b.params)

(* C28: the list get_possible_actions returns starts with unload_beluga *)
(* exactly when that action is legal, and is strictly increasing by     *)
(* action name in the order left_stack_rack, right_stack_rack,          *)
(* left_unstack_rack, right_unstack_rack, load_beluga, get_from_hangar, *)
(* deliver_to_hangar and, within a name, by parameters in lexicographic *)
(* order; so no action is listed twice.                                 *)
C28_EnumerationOrder ==
  ret.op = "get_possible_actions" =>
    /\ \A i \in 1..Len(ret.out) :
         /\ ret.out[i].name \in SeqToSet(EnumerationOrder)
         /\ i < Len(ret.out) => ListedBefore(ret.out[i], ret.out[i + 1])
    /\ apply_action(Ctx, "S", "unload_beluga", <<>>, 0).ok
         <=> (ret.out # <<>> /\ ret.out[1] = Act("unload_beluga", <<>>))

(* The list starts with unload_beluga and goes on with the stacking     *)
(* moves of the jig on trailer 0, into rack 0 before rack 1.            *)
C28_Witness ==
  /\ ret.op = "get_possible_actions"
  /\ Len(ret.out) >= 3
  /\ ret.out[1] = Act("unload_beluga", <<>>)
  /\ ret.out[2] = Act("left_stack_rack", <<0, 0>>)
  /\ ret.out[3] = Act("left_stack_rack", <<1, 0>>)

(* ------------------------------------------------------------------ *)
(* Untried actions and the selection rule of a node                    *)
(* ------------------------------------------------------------------ *)

(* The actions of the existing children of node n. *)
ChildActions(t, n) ==
  {t[t[n].children[i]].action : i \in 1..Len(t[n].children)}

RECURSIVE WithoutTaken(_, _)
(* The elements of list, in order, that are not in taken. *)
WithoutTaken(list, taken) ==
  IF list = <<>> THEN <<>>
  ELSE IF Head(list) \in taken THEN WithoutTaken(Tail(list), taken)
  ELSE <<Head(list)>> \o WithoutTaken(Tail(list), taken)

(* A root constructed with an action name and no parameters. *)
PinnedRoot(t, n) ==
  is_root(t, n) /\ t[n].action.name # "" /\ t[n].action.params = <<>>

(* C29: on every node that is not a root with a pinned action name,    *)
(* get_untried_actions returns the elements of                         *)
(* state.get_possible_actions(), in that order, whose (name, params)   *)
(* pair is not the action of an existing child, and is_fully_expanded  *)
(* holds exactly when that list is empty.                              *)
C29_UntriedActions ==
  /\ \A n \in 1..Len(tree) :
       ~PinnedRoot(tree, n) =>
         \A oob \in NodeOob(tree, n) :
           /\ get_untried_actions(tree, n, oob)
                = WithoutTaken(get_possible_actions(tree[n].state, "S", oob),
                               ChildActions(tree, n))
           /\ is_fully_expanded(tree, n, oob)
                <=> (WithoutTaken(get_possible_actions(tree[n].state, "S",
                                                       oob),
                                  ChildActions(tree, n)) = <<>>)
  /\ (ret.op = "get_untried_actions" /\ ~PinnedRoot(tree, ret.node)) =>
       \E oob \in NodeOob(tree, ret.node) :
         ret.out = WithoutTaken(get_possible_actions(tree[ret.node].state,
                                                     "S", oob),
                                ChildActions(tree, ret.node))

(* Node 2 has one child and get_untried_actions returned the one        *)
(* remaining action of the two its state allows.                        *)
C29_Witness ==
  /\ ret.op = "get_untried_actions"
  /\ ret.node = 2
  /\ Len(tree) >= 3
  /\ Len(tree[2].children) = 1
  /\ Len(ret.out) = 1
  /\ ret.out[1] # tree[tree[2].children[1]].action
  /\ \E oob \in NodeOob(tree, 2) :
       Len(get_possible_actions(tree[2].state, "S", oob)) = 2

(* Child a scores at least as much as child b under weight 0: an       *)
(* unvisited child scores +infinity, a visited one its mean reward.     *)
ScoresAtLeast(t, a, b) ==
  IF t[a].visits = 0 THEN TRUE
  ELSE IF t[b].visits = 0 THEN FALSE
  ELSE t[a].total_reward * t[b].visits >= t[b].total_reward * t[a].visits

(* Position i holds a child of n with the greatest score. *)
IsGreatest(t, n, i) ==
  \A j \in 1..Len(t[n].children) :
    ScoresAtLeast(t, t[n].children[i], t[n].children[j])

(* C30: best_child(0) returns null exactly on a node without children;  *)
(* otherwise it returns the child with the greatest score, an unvisited *)
(* child scoring +infinity and a visited one total_reward / visits, and *)
(* among children of equal greatest score the first in children.        *)
C30_BestChildRule ==
  /\ \A n \in 1..Len(tree) :
       /\ best_child(tree, n, 0) = 0 <=> tree[n].children = <<>>
       /\ tree[n].children # <<>> =>
            \E i \in 1..Len(tree[n].children) :
              /\ best_child(tree, n, 0) = tree[n].children[i]
              /\ IsGreatest(tree, n, i)
              /\ \A j \in 1..(i - 1) : ~IsGreatest(tree, n, j)
  /\ (ret.op = "best_child" /\ ret.exploration_weight = 0) =>
       ret.out = best_child(tree, ret.node, 0)

(* best_child(0) was called on node 2, whose two children are visited   *)
(* and tie on the mean reward: the first of them is returned.           *)
C30_Witness ==
  /\ ret.op = "best_child"
  /\ ret.exploration_weight = 0
  /\ ret.node = 2
  /\ Len(tree) = 4
  /\ Len(tree[2].children) = 2
  /\ tree[tree[2].children[1]].visits > 0
  /\ tree[tree[2].children[2]].visits > 0
  /\ ScoresAtLeast(tree, tree[2].children[2], tree[2].children[1])
  /\ ret.out = tree[2].children[1]

(* ------------------------------------------------------------------ *)
(* One driver whose three entry points are called in any order:        *)
(* search(), search_single_iteration() and search_root_parallel().     *)
(* Each call runs to its end before the next one starts; the workers   *)
(* of a root-parallel call touch their own trees only, so the call is  *)
(* one step of the driver.                                             *)
(* ------------------------------------------------------------------ *)
MaxDriverCalls == 3
MaxDriverSims == 3

RECURSIVE single_loop(_, _, _, _)
(* The trees the loop of search_single_iteration calls inside           *)
(* search_root_parallel can leave after n more passes.                  *)
single_loop(T, depth, n, oob) ==
  IF n <= 0 THEN T
  ELSE single_loop(UNION {{it.t : it \in
                              search_single_iteration(t, depth, oob)} :
                            t \in T},
                   depth, n - 1, oob)

(* search_root_parallel(thread_count) run to its end on tree t. *)
search_root_parallel(t, depth, n_simulations, thread_count, hardware_threads, oob) ==
  IF thread_count = 1
  THEN single_loop({t}, depth, n_simulations, oob)
  ELSE {merge(t, thread_roots, oob.here) :
          thread_roots \in
            [1..thread_count ->
               search_of_worker(thread_root(t), depth,
                                sims_per_thread(n_simulations, thread_count),
                                hardware_threads, oob)]}

(* search() run to its end on tree t. *)
search(t, depth, n_simulations, num_threads, hardware_threads, oob) ==
  IF num_threads > 1 /\ n_simulations >= ParallelThreshold
  THEN search_root_parallel(t, depth, n_simulations, num_threads,
                            hardware_threads, oob)
  ELSE search_loop({t}, depth, n_simulations, oob)

(* Root snapshots of the driver: one action open at the root and two at *)
(* its child, or two at the root.                                       *)
DriverSnapshots == {ScenarioTree, ScenarioFork}

InitDriver ==
  /\ heap = ScenarioTree.heap
  /\ objs = ScenarioTree.objs
  /\ emptied = 0
  /\ ret = [op |-> "construct"]
  /\ workers = <<>>
  /\ twin = <<>>
  /\ \E snap \in DriverSnapshots, depth \in 1..MaxSearchDepth,
        n_simulations \in 1..MaxDriverSims, num_threads \in {1, 2} :
       /\ tree = <<MCTSNode(snap, 0, NoAction, 0)>>
       /\ mcts = [pc |-> "constructed", depth |-> depth,
                  n_simulations |-> n_simulations,
                  num_threads |-> num_threads, calls |-> 0,
                  hardware_threads |-> get_hardware_threads(2)]

(* mcts.search() *)
DriverSearch ==
  /\ mcts.calls < MaxDriverCalls
  /\ \E oob \in NodeOob(tree, 1) :
       \E t \in search(tree, mcts.depth, mcts.n_simulations,
                       mcts.num_threads, mcts.hardware_threads, oob) :
         /\ tree' = t
         /\ ret' = [op |-> "search", out |-> best_child(t, 1, 0)]
  /\ mcts' = [mcts EXCEPT !.pc = "returned", !.calls = @ + 1]
  /\ UNCHANGED <<snapshot_vars, twin, workers>>

(* mcts.search_single_iteration() *)
DriverSingleIteration ==
  /\ mcts.calls < MaxDriverCalls
  /\ \E oob \in NodeOob(tree, 1) :
       \E it \in search_single_iteration(tree, mcts.depth, oob) :
         /\ tree' = it.t
         /\ ret' = [op |-> "search_single_iteration", out |-> it.out]
  /\ mcts' = [mcts EXCEPT !.pc = "returned", !.calls = @ + 1]
  /\ UNCHANGED <<snapshot_vars, twin, workers>>

(* mcts.search_root_parallel(thread_count) *)
DriverSearchRootParallel ==
  /\ mcts.calls < MaxDriverCalls
  /\ \E thread_count \in {0, 2} :
       \E tc \in {IF thread_count <= 0 THEN mcts.num_threads
                  ELSE thread_count} :
         \E oob \in NodeOob(tree, 1) :
           \E t \in search_root_parallel(tree, mcts.depth,
                                         mcts.n_simulations, tc,
                                         mcts.hardware_threads, oob) :
             /\ tree' = t
             /\ ret' = [op |-> "search_root_parallel", workers |-> tc,
                        out |-> best_child(t, 1, 0)]
  /\ mcts' = [mcts EXCEPT !.pc = "returned", !.calls = @ + 1]
  /\ UNCHANGED <<snapshot_vars, twin, workers>>

NextDriver ==
  \/ DriverSearch
  \/ DriverSingleIteration
  \/ DriverSearchRootParallel

SpecDriver == InitDriver /\ [][NextDriver]_vars

(* C31: in the tree held by the driver the root has depth 0 and every   *)
(* other node has the depth of its parent plus 1, the children created  *)
(* while merging worker results included.                               *)
C31_DepthConsistent ==
  \A n \in 1..Len(tree) :
    IF tree[n].parent = 0 THEN tree[n].depth = 0
    ELSE tree[n].depth = tree[tree[n].parent].depth + 1

(* C32: no node attached to the tree by the sequential search lies      *)
(* deeper than the depth parameter of the driver.                       *)
C32_DepthCap ==
  mcts.pc \in {"loop", "returned"} =>
    \A n \in 1..Len(tree) : tree[n].depth <= mcts.depth

(* Node n of t is fully expanded whatever an out-of-range lookup yields. *)
FullyExpanded(t, n) == \A oob \in NodeOob(t, n) : is_fully_expanded(t, n, oob)

(* p is a descent of k edges from the root along best_child(1.0)        *)
(* through nodes that are not terminal and fully expanded.              *)
IsDescent(t, p, k) ==
  /\ p[1] = 1
  /\ \A i \in 1..k :
       /\ ~node_is_terminal(t, p[i])
       /\ FullyExpanded(t, p[i])
       /\ p[i + 1] = best_child(t, p[i], 1)

(* C33: select(root) follows best_child(1.0) from the root at most      *)
(* depth times through nodes that are not terminal and fully expanded,  *)
(* returns a node that is terminal, or has an untried action, or has    *)
(* no children, or lies depth edges below the root, and leaves the tree *)
(* as it was.                                                           *)
C33_Selection ==
  /\ [](ret.op = "select" =>
          \E k \in 0..mcts.depth :
            \E p \in [1..(k + 1) -> 1..Len(tree)] :
              /\ IsDescent(tree, p, k)
              /\ p[k + 1] = ret.out
              /\ \/ node_is_terminal(tree, ret.out)
                 \/ ~FullyExpanded(tree, ret.out)
                 \/ tree[ret.out].children = <<>>
                 \/ k = mcts.depth)
  /\ [][ret'.op = "select" => tree' = tree]_vars

(* select(root) went down two edges, to a node at the depth limit that  *)
(* is neither terminal nor without an untried action.                   *)
C33_Witness ==
  /\ ret.op = "select"
  /\ mcts.depth = 2
  /\ tree[ret.out].parent > 1
  /\ ~node_is_terminal(tree, ret.out)
  /\ tree[tree[ret.out].parent].parent = 1

(* max(0, min(50, depth - N.depth)) *)
StepCap(t, node, depth) ==
  IF depth - t[node].depth < 0 THEN 0
  ELSE IF depth - t[node].depth > 50 THEN 50
  ELSE depth - t[node].depth

RECURSIVE RolloutRuns(_, _, _, _)
(* The runs of a rollout that has applied k actions to the local state  *)
(* "state" of c: each ends on a terminal state, on a state without a    *)
(* legal action or at the cap, and records the final context, the       *)
(* number of applied actions and whether every apply_action returned    *)
(* true.                                                                *)
RolloutRuns(c, k, cap, oob) ==
  IF \/ k >= cap
     \/ is_terminal(c, "state")
     \/ get_possible_actions(c, "state", oob) = <<>>
  THEN {[c |-> c, k |-> k, ok |-> TRUE]}
  ELSE UNION {{[x EXCEPT !.ok = x.ok /\ r.ok] :
                 x \in RolloutRuns(r.c, k + 1, cap, oob)} :
                r \in {apply_action(c, "state", action.name, action.params,
                                    oob.here) :
                         action \in SeqToSet(get_possible_actions(c, "state",
                                                                  oob))}}

C35_WorkDivision ==
  [][(/\ ret'.op = "search_root_parallel"
      /\ ret'.workers >= 2
      /\ tree[1].children = <<>>
      /\ ~node_is_terminal(tree, 1)
      /\ HasLegalAction(tree[1].state)
      /\ mcts.depth >= 1)
       => /\ \A w \in 1..Len(workers) :
               workers[w].tree[1].visits
                 = sims_per_thread(mcts.n_simulations, ret'.workers)
          /\ tree'[1].visits
               = ret'.workers
                   * sims_per_thread(mcts.n_simulations, ret'.workers)
    ]_vars

(* The actions of the children of the workers' roots. *)
ObservedActions ==
  UNION {ChildActions(workers[w].tree, 1) : w \in 1..Len(workers)}

(* C36: when search_root_parallel with T >= 2 workers returns on a root *)
(* that had no children, every child of the root has no children and a  *)
(* state equal to the root state with the child's action applied, and   *)
(* the tree has one node besides the root for every action that is the  *)
(* action of a root child in some worker tree.                          *)
C36_SubtreesDiscarded ==
  [][(/\ ret'.op = "search_root_parallel"
      /\ ret'.workers >= 2
      /\ tree[1].children = <<>>)
       => /\ \A k \in 1..Len(tree'[1].children) :
               /\ tree'[tree'[1].children[k]].children = <<>>
               /\ \E oob \in OobReadsAny(tree[1].state, "S") :
                    Deref(tree'[tree'[1].children[k]].state, "S")
                      = Deref(apply_action(
                                tree[1].state, "S",
                                tree'[tree'[1].children[k]].action.name,
                                tree'[tree'[1].children[k]].action.params,
                                oob).c, "S")
          /\ Len(tree') = 1 + Cardinality(ObservedActions)
          /\ Len(tree'[1].children) = Cardinality(ObservedActions)
    ]_vars

(* Two workers whose trees reached below the children of their roots    *)
(* have been merged into a root that had no children: the shared tree   *)
(* holds the root and one node for the one observed action.             *)
C36_Witness ==
  /\ ret.op = "search_root_parallel" /\ ret.workers = 2
  /\ mcts.calls = 1
  /\ Len(tree) = 2
  /\ \A w \in 1..2 :
       /\ Len(workers[w].tree) >= 3
       /\ \E n \in 1..Len(workers[w].tree) : workers[w].tree[n].depth = 2
  /\ tree[2].children = <<>>
  /\ tree[2].visits = 4

(* ------------------------------------------------------------------ *)
(* MCTS::collect_training_data on trees built with the node's own      *)
(* operations.  A sample is the pair of the observation of a node's    *)
(* state, for which the node stands, and the node's mean reward as the *)
(* fraction num / den.                                                 *)
(* ------------------------------------------------------------------ *)
RetryBelow == 10
MaxChain == 11
MaxSamples == 12
MaxMinVisits == 3

sample(t, current_node) ==
  [observation |-> current_node,
   value |-> IF t[current_node].visits > 0
             THEN [num |-> t[current_node].total_reward,
                   den |-> t[current_node].visits]
             ELSE [num |-> 0, den |-> 1]]

RECURSIVE collect_pass_depth_first(_, _, _, _, _)
collect_pass_depth_first(t, nodes_to_process, training_data, max_samples, min_visits) ==
  IF nodes_to_process = <<>> \/ Len(training_data) >= max_samples
  THEN training_data
  ELSE collect_pass_depth_first(
         t, t[Head(nodes_to_process)].children \o Tail(nodes_to_process),
         IF t[Head(nodes_to_process)].visits >= min_visits
         THEN Append(training_data, sample(t, Head(nodes_to_process)))
         ELSE training_data,
         max_samples, min_visits)

RECURSIVE collect_pass(_, _, _, _, _)
(* The while loop of collect_training_data with the queue and the       *)
(* samples as they stand.                                               *)
collect_pass(t, nodes_to_process, training_data, max_samples, min_visits) ==
  IF nodes_to_process = <<>> \/ Len(training_data) >= max_samples
  THEN training_data
  ELSE collect_pass(
         t, Tail(nodes_to_process) \o t[Head(nodes_to_process)].children,
         IF t[Head(nodes_to_process)].visits >= min_visits
         THEN Append(training_data, sample(t, Head(nodes_to_process)))
         ELSE training_data,
         max_samples, min_visits)

RECURSIVE collect_training_data(_, _, _)
collect_training_data(t, max_samples, min_visits) ==
  IF /\ Len(collect_pass(t, <<1>>, <<>>, max_samples, min_visits))
          < RetryBelow
     /\ min_visits > 1
  THEN collect_training_data(t, max_samples, 1)
  ELSE collect_pass(t, <<1>>, <<>>, max_samples, min_visits)

RECURSIVE chain(_, _)
(* k calls of expand, each on the node created last with the first of   *)
(* its untried actions.                                                 *)
chain(t, k) ==
  IF k = 0 \/ get_untried_actions(t, Len(t), [here |-> 0, copy |-> 0]) = <<>>
  THEN t
  ELSE chain(expand(t, Len(t),
                    get_untried_actions(t, Len(t),
                                        [here |-> 0, copy |-> 0])[1], 0),
             k - 1)

(* expand on node n with the first of its untried actions, if n is a    *)
(* node with one.                                                       *)
branch(t, n) ==
  IF n \in 1..Len(t) /\ get_untried_actions(t, n, [here |-> 0, copy |-> 0]) # <<>>
  THEN expand(t, n, get_untried_actions(t, n, [here |-> 0, copy |-> 0])[1], 0)
  ELSE t

(* backpropagate(reward) on node n, if n is a node. *)
credit(t, n, reward) ==
  IF n \in 1..Len(t) THEN backpropagate(t, n, reward) ELSE t

(* The nodes backpropagate is called on while a tree is built. *)
CreditNodes == {0, 2, MaxChain, MaxChain + 2}

(* A driver over a tree grown from ScenarioTree by expand calls, a      *)
(* chain with one side branch at node 2, and two backpropagate calls.   *)
InitCollect ==
  /\ heap = ScenarioTree.heap
  /\ objs = ScenarioTree.objs
  /\ emptied = 0
  /\ ret = [op |-> "construct"]
  /\ workers = <<>>
  /\ twin = <<>>
  /\ mcts = [pc |-> "constructed"]
  /\ \E k \in {0, 2, MaxChain - 1, MaxChain}, side \in {0, 2},
        b1 \in CreditNodes,
        b2 \in CreditNodes :
       tree = credit(credit(branch(chain(<<MCTSNode(ScenarioTree, 0,
                                                    NoAction, 0)>>, k),
                                   side),
                            b1, 300),
                     b2, 0 - 1)

(* mcts.collect_training_data(max_samples, min_visits) *)
CollectTrainingData ==
  /\ \E max_samples \in {0, 3, MaxSamples}, min_visits \in 0..MaxMinVisits :
       ret' = [op |-> "collect_training_data", max_samples |-> max_samples,
               min_visits |-> min_visits,
               out |-> collect_training_data(tree, max_samples, min_visits)]
  /\ UNCHANGED <<snapshot_vars, search_vars>>

NextCollect == CollectTrainingData

SpecCollect == InitCollect /\ [][NextCollect]_vars

RECURSIVE LevelsFrom(_, _)
(* The nodes of a level, from left to right, followed by the levels     *)
(* below it.                                                            *)
LevelsFrom(t, level) ==
  IF level = <<>> THEN <<>>
  ELSE level \o LevelsFrom(t, Flatten([i \in 1..Len(level) |->
                                         t[level[i]].children]))

(* The nodes of the tree in breadth-first order. *)
BreadthFirst(t) == LevelsFrom(t, <<1>>)

RECURSIVE Taken(_, _, _, _)
(* The nodes of list, in order, with visits >= threshold, up to limit   *)
(* of them.                                                             *)
Taken(t, list, threshold, limit) ==
  IF list = <<>> \/ limit <= 0 THEN <<>>
  ELSE IF t[Head(list)].visits >= threshold
  THEN <<Head(list)>> \o Taken(t, Tail(list), threshold, limit - 1)
  ELSE Taken(t, Tail(list), threshold, limit)

(* The threshold in force: min_visits, or 1 after a first pass with     *)
(* fewer than 10 samples under a min_visits above 1.                    *)
InForce(t, max_samples, min_visits) ==
  IF /\ Len(Taken(t, BreadthFirst(t), min_visits, max_samples)) < 10
     /\ min_visits > 1
  THEN 1 ELSE min_visits

(* C37: collect_training_data(max_samples, min_visits) returns at most  *)
(* max_samples samples: those of the first max_samples nodes, in        *)
(* breadth-first order from the root, whose visits reach the threshold  *)
(* in force, nodes below the threshold being passed over with their     *)
(* children still visited; the threshold in force is min_visits, or 1   *)
(* when the pass under min_visits > 1 yields fewer than 10 samples.     *)
C37_CollectTrainingData ==
  ret.op = "collect_training_data" =>
    /\ Len(ret.out) <= ret.max_samples
    /\ ret.out
         = [i \in 1..Len(Taken(tree, BreadthFirst(tree),
                               InForce(tree, ret.max_samples,
                                       ret.min_visits),
                               ret.max_samples)) |->
              sample(tree, Taken(tree, BreadthFirst(tree),
                                 InForce(tree, ret.max_samples,
                                         ret.min_visits),
                                 ret.max_samples)[i])]

(* Ten or more samples came back under min_visits = 2 from a tree      *)
(* whose node 2 has a second child below the threshold: that child was  *)
(* passed over, and no second pass was made.                            *)
C37_Witness ==
  /\ ret.op = "collect_training_data"
  /\ ret.min_visits = 2
  /\ Len(ret.out) >= 10
  /\ Len(tree[2].children) = 2
  /\ tree[tree[2].children[2]].visits < 2
  /\ ret.out[3].observation = tree[2].children[1]
  /\ ret.out[4].observation = tree[tree[2].children[1]].children[1]

(* A first pass under min_visits = 3 found fewer than ten samples, and  *)
(* the samples of a pass with threshold 1 came back.                    *)
C37_WitnessRetry ==
  /\ ret.op = "collect_training_data"
  /\ ret.min_visits = 3
  /\ Len(ret.out) >= 2
  /\ \E i \in 1..Len(ret.out) : tree[ret.out[i].observation].visits = 1

(* ------------------------------------------------------------------ *)
(* Progress of the snapshot under apply_action                         *)
(* ------------------------------------------------------------------ *)

(* No beluga and no production line is left in snapshot s. *)
Terminal(s) == s.belugas = <<>> /\ s.production_lines = <<>>

(* C38: across every apply_action call, successful or not,              *)
(* belugas_unloaded, belugas_finished and production_lines_finished do  *)
(* not decrease, total_belugas and total_lines do not change, the       *)
(* numbers of belugas and of production lines do not increase, and a    *)
(* terminal snapshot stays terminal.                                    *)
C38_MonotoneProgress ==
  [][ret'.op = "apply_action"
       => /\ state'.belugas_unloaded >= state.belugas_unloaded
          /\ state'.belugas_finished >= state.belugas_finished
          /\ state'.production_lines_finished
               >= state.production_lines_finished
          /\ state'.total_belugas = state.total_belugas
          /\ state'.total_lines = state.total_lines
          /\ Len(state'.belugas) <= Len(state.belugas)
          /\ Len(state'.production_lines) <= Len(state.production_lines)
          /\ Terminal(state) => Terminal(state')
    ]_vars

(* An action was tried on a snapshot that had become terminal after a   *)
(* beluga and a production line were finished, and it is terminal still. *)
C38_Witness ==
  /\ ret.op = "apply_action" /\ ~ret.ok
  /\ Terminal(state)
  /\ state.total_belugas >= 1 /\ state.total_lines >= 1
  /\ state.belugas_unloaded >= 1
  /\ state.production_lines_finished = state.total_lines

(* ------------------------------------------------------------------ *)
(* The tree of the driver after any sequence of calls                  *)
(* ------------------------------------------------------------------ *)

(* C39: in the tree of the driver no node has two children with the     *)
(* same (name, params) pair, and the action of every child is accepted  *)
(* by apply_action on the state of its parent.                          *)
C39_NoDuplicateChildren ==
  \A n \in 1..Len(tree) :
    /\ \A i, j \in 1..Len(tree[n].children) :
         i # j => tree[tree[n].children[i]].action
                    # tree[tree[n].children[j]].action
    /\ \A i \in 1..Len(tree[n].children) :
         \A oob \in OobReadsAny(tree[n].state, "S") :
           apply_action(tree[n].state, "S",
                        tree[tree[n].children[i]].action.name,
                        tree[tree[n].children[i]].action.params, oob).ok

(* A root-parallel search has returned on a root that had both of its   *)
(* children, and grandchildren, from earlier calls: the root still has  *)
(* two children.                                                        *)
C39_Witness ==
  /\ ret.op = "search_root_parallel" /\ ret.workers = 2
  /\ mcts.calls >= 2
  /\ Len(tree[1].children) = 2
  /\ Len(tree) >= 4
  /\ tree[1].visits = 2

(* C40: in the tree of the driver the visits of every node are at least *)
(* the sum of the visits of its children, and every node below the root *)
(* has been visited.                                                    *)
C40_VisitsConsistent ==
  \A n \in 1..Len(tree) :
    /\ tree[n].visits >= SumOver(tree, tree[n].children, "visits")
    /\ tree[n].parent # 0 => tree[n].visits >= 1

====
